---- MODULE Spec2Model ----
(***************************************************************************)
(* A model of the UDP peer discovery transport of xchain (package          *)
(* discover, src/unnamed/part_000): the pending-reply event loop, the      *)
(* packet dispatcher with its eight typed handlers, and the ping/pong      *)
(* network-identifier classification.                                      *)
(*                                                                         *)
(* Time is counted in ticks of 500 ms, so respTimeout (500 ms) is 1 tick.  *)
(* Bytes are numbers (ASCII codes), strings are sequences of bytes.        *)
(* Go's uint64/int are scaled to IntBits-bit words.                        *)
(***************************************************************************)
EXTENDS Integers, Sequences, FiniteSets, TLC

\* ------------------------------------------------------------------ bounds

\* number of remote peers (NodeIDs 1..MaxPeers; 0 is the zero NodeID{})
MaxPeers == 2
\* number of requests (calls of ping, waitping, findnode, findvalue) in a run
MaxCallers == 2
\* wall-clock ticks the model follows
MaxTime == 4
\* the wall clock at start
StartTime == 2
\* how many times the system clock is set back in a run
MaxJumps == 1
\* the largest depth of the miner's unconfirmed set
MaxDepth == 2
\* how many blocks the unconfirmed set is followed up to
MaxBlocks == 3
\* width of a machine word: uint64 is 0..2^IntBits-1, int is -2^(IntBits-1)..2^(IntBits-1)-1
IntBits == 4

\* ------------------------------------------------------- program constants

respTimeout == 1
TicksPerSecond == 2 * respTimeout
expiration == 20 * TicksPerSecond
ntpFailureThreshold == 32
ntpWarningCooldown == 600 * TicksPerSecond

PINGPACKET == 1
PONGPACKET == 2
FINDNODEPACKET == 3
NEIGHBORSPACKET == 4
STOREPACKET == 5
STOREREPLYPACKET == 6
FINDVALUEPACKET == 7
FINDVALUEREPLYPACKET == 8

UnknownNode == "UnknownNode"
BrotherNode == "BrotherNode"
AlienNode == "AlienNode"
NodeTypes == {UnknownNode, BrotherNode, AlienNode}

errPacketTooSmall == "too small"
errBadHash == "bad hash"
errExpired == "expired"
errUnsolicitedReply == "unsolicited reply"
errUnknownNode == "unknown node"
errTimeout == "RPC timeout"
errClockWarp == "reply deadline too far in the future"
errClosed == "socket closed"
errAlien == "Node seen before as alien node"
errUnknownType == "unknown type"
errBadSignature == "recovery failed"
errDecode == "rlp: decode error"
nil == "nil"

ZeroID == 0
Peers == 1..MaxPeers
\* the NodeID under which the peers know this node
SelfID == MaxPeers + 1
NodeIDs == 0..SelfID
CallerIds == 1..MaxCallers

\* ------------------------------------------------------------ machine words

RECURSIVE Pow2(_)
Pow2(n) == IF n = 0 THEN 1 ELSE 2 * Pow2(n - 1)

UintMod == Pow2(IntBits)
MaxUint == UintMod - 1
MaxInt == Pow2(IntBits - 1) - 1
MinInt == 0 - Pow2(IntBits - 1)

\* uint64(x) of an int x
ToUint(x) == x % UintMod

\* ------------------------------------------------------------------ strings

TAB == 9
PLUS == 43
MINUS == 45
CHAR0 == 48
CHARX == 120

IsDigit(b) == b >= CHAR0 /\ b <= CHAR0 + 9

\* fmt.Sprintf("%d", n) of an unsigned n
RECURSIVE FormatUint(_)
FormatUint(n) ==
    IF n < 10 THEN <<CHAR0 + n>>
    ELSE Append(FormatUint(n \div 10), CHAR0 + (n % 10))

\* the value of a string of decimal digits (no range check)
RECURSIVE DigitsValue(_)
DigitsValue(s) ==
    IF Len(s) = 0 THEN 0
    ELSE 10 * DigitsValue(SubSeq(s, 1, Len(s) - 1)) + (s[Len(s)] - CHAR0)

\* strconv.Atoi: an optional sign, then one or more decimal digits, and the
\* value must fit an int; ok is err == nil
AtoiWide(s) ==
    LET Parse(digits) ==
            IF Len(digits) > 0 /\ \A i \in 1..Len(digits) : IsDigit(digits[i])
            THEN [ok |-> TRUE,
                  val |-> IF s[1] = MINUS THEN 0 - DigitsValue(digits)
                          ELSE DigitsValue(digits)]
            ELSE [ok |-> FALSE, val |-> 0]
    IN  Parse(IF Len(s) > 0 /\ s[1] \in {PLUS, MINUS} THEN Tail(s) ELSE s)

Atoi(s) ==
    LET InRange(a) ==
            IF a.ok /\ a.val >= MinInt /\ a.val <= MaxInt THEN a
            ELSE [ok |-> FALSE, val |-> 0]
    IN  InRange(AtoiWide(s))

\* strings.Split(s, "\t")[0]: the text before the first tab
RECURSIVE FirstField(_)
FirstField(s) ==
    IF Len(s) = 0 \/ s[1] = TAB THEN <<>>
    ELSE <<s[1]>> \o FirstField(Tail(s))

\* rlp.EncodeToBytes of a string shorter than 56 bytes
RlpEncodeString(s) ==
    IF Len(s) = 1 /\ s[1] < 128 THEN s
    ELSE <<128 + Len(s)>> \o s

\* the Rest field ping and pong send: rlp of fmt.Sprintf("%d\t", networkid)
NetworkRest(networkid) == <<RlpEncodeString(Append(FormatUint(networkid), TAB))>>

\* ---------------------------------------------------------------- the state

VARIABLES
    now,          \* the wall clock (time.Now()), in ticks
    jumps,        \* how often the wall clock was set back
    networkid,    \* udp.networkid
    strict,       \* udp.strictNodeCheck
    nodeType,     \* the table's classification of each NodeID
    db,           \* the NodeIDs with a bonded node record (u.db.node(id) != nil)
    kv,           \* the key/value store: the owners of the values under each key
    fallback,     \* the table's fallback-nodes slot
    plist,        \* loop: the list of pending replies
    nextTimeout,  \* loop: head of plist when the timer was last reset (0 is nil)
    timer,        \* ticks until the timer fires, -1 when it is not running
    timerC,       \* whether a value waits in timeout.C
    contTimeouts, \* loop: number of continuous timeouts
    ntpWarnTime,  \* loop: when the clock drift check was last started
    driftChecks,  \* how often checkClockDrift was started
    closing,      \* whether u.closing is closed
    loopRunning,  \* whether loop() has not returned
    calls,        \* the requests: position, kind, target and the callback's variables
    results,      \* what was sent on each request's errc
    out,          \* what the last step sent (packets written, goroutines started)
    lastErr,      \* what the last handlePacket returned ("none" after other steps)
    invoked,      \* the requests whose callback the last step invoked, in order
    lastType,     \* the type of the packet whose typed handler the last step ran
                  \* (0 when it ran none)
    remote,       \* the peers as nodes that run this code: each one's networkid and
                  \* strictNodeCheck, its classification of this node, and the
                  \* packets it has sent to this node that are still on their way
    wire,         \* a message on its way through encodePacket and decodePacket:
                  \* the key, the type and the message, then the packet, then
                  \* what decodePacket returned for it
    netrestrict,  \* udp.netrestrict: whether it is nil, and the addresses it contains
    unconfirmed,  \* the miner's unconfirmedBlocks: its depth and its ring of blocks,
                  \* from set.blocks onwards
    mined         \* the number of the block the miner inserted last

vars == <<now, jumps, networkid, strict, nodeType, db, kv, fallback, plist,
          nextTimeout, timer, timerC, contTimeouts, ntpWarnTime, driftChecks,
          closing, loopRunning, calls, results, out, lastErr, invoked, lastType,
          remote, wire, netrestrict, unconfirmed, mined>>

\* the part of the state the handlers and the loop read and write, as a value
World ==
    [now |-> now, networkid |-> networkid, strict |-> strict,
     nodeType |-> nodeType, db |-> db, kv |-> kv, fallback |-> fallback,
     plist |-> plist, nextTimeout |-> nextTimeout, timer |-> timer,
     timerC |-> timerC, contTimeouts |-> contTimeouts, calls |-> calls,
     results |-> results]

\* ------------------------------------------------------------------- time

\* time.Unix(): whole seconds of a wall clock reading
Unix(t) == t \div TicksPerSecond

\* expired with a grace of one second
expiredAfterGrace(ts, t) == (ts + 1) * TicksPerSecond < t

\* helper function to check if expired
expired(ts, t) == ts * TicksPerSecond < t

\* uint64(time.Now().Add(expiration).Unix())
Deadline(t) == Unix(t + expiration)

\* --------------------------------------------------- the table (collaborator)

\* Table.GetNodeType
GetNodeType(nt, id) == nt[id]

\* Table.SetNodeType
SetNodeType(nt, id, t) == [nt EXCEPT ![id] = t]

\* an address class stands for an IP address
IPClasses == {"wan", "lan", "loopback", "special"}

\* the address each peer sends from (and is reached at)
PeerIP(p) == IF p = 1 THEN "wan" ELSE "lan"

\* netutil.CheckRelayIP(sender, addr) == nil
CheckRelayIP(sender, addr) ==
    /\ addr # "special"
    /\ ~(addr = "loopback" /\ sender # "loopback")
    /\ ~(addr \in {"lan", "loopback"} /\ sender \notin {"lan", "loopback"})

\* the length of a bucket, which is also the number of nodes findnode waits for
bucketSize == 3

\* the most nodes one neighbors packet holds
maxNeighbors == 2

\* u.netrestrict != nil && !u.netrestrict.Contains(ip) is false
NetrestrictAllows(ip) == netrestrict.nil \/ ip \in netrestrict.list

\* nodeFromRPC(sender, rn) returns no error
nodeFromRPC(sender, rn) ==
    /\ ~(rn.udp <= 1024)
    /\ CheckRelayIP(sender, rn.ip)
    /\ NetrestrictAllows(rn.ip)

\* the text "enode://<id>@<ip>:<port>" of node id, written as one symbol
COMMA == 44
UrlBase == 256
EnodeURL(id) == <<UrlBase + id>>

\* strings.Split(s, ","): the segments between commas
RECURSIVE SplitComma(_)
SplitComma(s) ==
    IF \A i \in 1..Len(s) : s[i] # COMMA THEN <<s>>
    ELSE LET k == CHOOSE i \in 1..Len(s) :
                      s[i] = COMMA /\ \A j \in 1..(i - 1) : s[j] # COMMA
         IN  <<SubSeq(s, 1, k - 1)>> \o SplitComma(SubSeq(s, k + 1, Len(s)))

\* ParseNode(url) returns a node: url is the text of one enode URL
ParsesAsNode(url) == Len(url) = 1 /\ url[1] > UrlBase /\ url[1] <= UrlBase + MaxPeers

\* the nodes ParseNode returns for the segments of a find-value reply
RECURSIVE ParseNodes(_)
ParseNodes(segs) ==
    IF Len(segs) = 0 THEN <<>>
    ELSE (IF ParsesAsNode(segs[1]) THEN <<segs[1][1] - UrlBase>> ELSE <<>>)
         \o ParseNodes(Tail(segs))

\* ------------------------------------------------------- classification

\* processRestInPingPong: the node type it returns and the table it leaves
processRestInPingPong(Rest, nid, nt, fromID) ==
    LET Converted(parsed) == IF parsed.ok THEN ToUint(parsed.val) ELSE 0
        Classified(network_id) ==
            IF network_id = nid
            THEN [remoteNodeType |-> BrotherNode,
                  nodeType |-> SetNodeType(nt, fromID, BrotherNode)]
            ELSE IF network_id # 0
            THEN [remoteNodeType |-> AlienNode,
                  nodeType |-> SetNodeType(nt, fromID, AlienNode)]
            ELSE [remoteNodeType |-> UnknownNode, nodeType |-> nt]
    IN  Classified(IF Len(Rest) > 0 THEN Converted(Atoi(FirstField(Tail(Rest[1]))))
                   ELSE 0)

\* ------------------------------------------------- the pending-reply loop

RemoveAt(s, i) == SubSeq(s, 1, i - 1) \o SubSeq(s, i + 1, Len(s))

\* p.errc <- e
Deliver(u, c, e) == [u EXCEPT !.results[c] = Append(@, e)]

\* timeout.Reset(d): a duration of zero or less fires at once; a value that
\* already waits in timeout.C stays there
TimerReset(u, d) ==
    IF d <= 0 THEN [u EXCEPT !.timer = -1, !.timerC = TRUE]
    ELSE [u EXCEPT !.timer = d]

\* timeout.Stop()
TimerStop(u) == [u EXCEPT !.timer = -1]

\* resetTimeout with the eviction at three response timeouts
resetTimeoutWarpsLate(u) ==
    IF Len(u.plist) = 0 \/ u.nextTimeout = u.plist[1].caller THEN u
    ELSE LET p == u.plist[1]
             dist == p.deadline - u.now
         IN  IF dist < 3 * respTimeout
             THEN TimerReset([u EXCEPT !.nextTimeout = p.caller], dist)
             ELSE TimerStop([Deliver(u, p.caller, errClockWarp)
                                EXCEPT !.plist = Tail(u.plist), !.nextTimeout = 0])

\* resetTimeout.  plist.Remove(el) clears el's links, so el.Next() is nil
\* after it and the scan ends at the first entry it removes.
resetTimeout(u) ==
    IF Len(u.plist) = 0 \/ u.nextTimeout = u.plist[1].caller THEN u
    ELSE LET p == u.plist[1]
             dist == p.deadline - u.now
         IN  IF dist < 2 * respTimeout
             THEN TimerReset([u EXCEPT !.nextTimeout = p.caller], dist)
             ELSE TimerStop([Deliver(u, p.caller, errClockWarp)
                                EXCEPT !.plist = Tail(u.plist), !.nextTimeout = 0])

\* loop, case p := <-u.pendings
LoopAddPending(u, c) ==
    LET call == u.calls[c]
        p == [from |-> call.to, ptype |-> call.ptype, deadline |-> u.now + respTimeout,
              createAt |-> u.now, caller |-> c]
    IN  [u EXCEPT !.plist = Append(@, p)]

\* the callback of findnode appending every listed node
FindnodeCallbackUnfiltered(nt, call, nodes) ==
    [call EXCEPT !.nreceived = @ + Len(nodes), !.nodes = @ \o nodes]

\* the callback of findnode, applied to the nodes of one neighbors packet
RECURSIVE FindnodeCallback(_, _, _)
FindnodeCallback(nt, call, nodes) ==
    IF Len(nodes) = 0 THEN call
    ELSE LET rn == Head(nodes)
             counted == [call EXCEPT !.nreceived = @ + 1]
             keep == /\ nodeFromRPC(PeerIP(call.to), rn)
                     /\ GetNodeType(nt, rn.id) # AlienNode
                     /\ (call.strict => GetNodeType(nt, rn.id) = BrotherNode)
         IN  FindnodeCallback(nt,
                 IF keep THEN [counted EXCEPT !.nodes = Append(@, rn)] ELSE counted,
                 Tail(nodes))

\* the callbacks, with findvalue's reading the first segment only
CallbackFirstSegment(u, c, data) ==
    LET Counted(after) ==
            [done |-> after.nreceived >= bucketSize, u |-> [u EXCEPT !.calls[c] = after]]
    IN  CASE u.calls[c].op = "findnode" ->
               Counted(FindnodeCallback(u.nodeType, u.calls[c], data.nodes))
          [] u.calls[c].op = "findvalue" ->
               [done |-> TRUE,
                u |-> [u EXCEPT !.fallback =
                                    ParseNodes(<<Head(SplitComma(data.value))>>)]]
          [] OTHER -> [done |-> TRUE, u |-> u]

\* p.callback(r.data) of the request c: whether it is done, and the state it leaves
Callback(u, c, data) ==
    LET Counted(after) ==
            [done |-> after.nreceived >= bucketSize, u |-> [u EXCEPT !.calls[c] = after]]
    IN  CASE u.calls[c].op = "findnode" ->
               Counted(FindnodeCallback(u.nodeType, u.calls[c], data.nodes))
          [] u.calls[c].op = "findvalue" ->
               [done |-> TRUE,
                u |-> [u EXCEPT !.fallback = ParseNodes(SplitComma(data.value))]]
          [] OTHER -> [done |-> TRUE, u |-> u]

\* the gotreply case with entries matched by the sender alone
RECURSIVE GotReplyFromAnyType(_, _, _, _, _)
GotReplyFromAnyType(u, i, from, ptype, data) ==
    IF i > Len(u.plist) THEN [u |-> u, matched |-> FALSE, invoked |-> <<>>]
    ELSE IF u.plist[i].from = from
    THEN LET c == u.plist[i].caller
             Scanned(r) ==
                 [u |-> r.u, matched |-> TRUE, invoked |-> <<c>> \o r.invoked]
             Called(cb) ==
                 IF cb.done
                 THEN [u |-> [Deliver(cb.u, c, nil)
                                 EXCEPT !.plist = RemoveAt(@, i), !.contTimeouts = 0],
                       matched |-> TRUE, invoked |-> <<c>>]
                 ELSE Scanned(GotReplyFromAnyType([cb.u EXCEPT !.contTimeouts = 0],
                                                  i + 1, from, ptype, data))
         IN  Called(Callback(u, c, data))
    ELSE GotReplyFromAnyType(u, i + 1, from, ptype, data)

\* loop, case r := <-u.gotreply: the scan of plist from its i-th entry on
RECURSIVE GotReplyFrom(_, _, _, _, _)
GotReplyFrom(u, i, from, ptype, data) ==
    IF i > Len(u.plist) THEN [u |-> u, matched |-> FALSE, invoked |-> <<>>]
    ELSE IF u.plist[i].from = from /\ u.plist[i].ptype = ptype
    THEN LET c == u.plist[i].caller
             Scanned(r) ==
                 [u |-> r.u, matched |-> TRUE, invoked |-> <<c>> \o r.invoked]
             Called(cb) ==
                 IF cb.done
                 THEN \* el.Next() is nil after plist.Remove(el)
                      [u |-> [Deliver(cb.u, c, nil)
                                 EXCEPT !.plist = RemoveAt(@, i), !.contTimeouts = 0],
                       matched |-> TRUE, invoked |-> <<c>>]
                 ELSE Scanned(GotReplyFrom([cb.u EXCEPT !.contTimeouts = 0],
                                           i + 1, from, ptype, data))
         IN  Called(Callback(u, c, data))
    ELSE GotReplyFrom(u, i + 1, from, ptype, data)

\* loop, case r := <-u.gotreply, and the resetTimeout that follows it
LoopGotReply(u, from, ptype, data) ==
    LET Reset(r) == [u |-> resetTimeout(r.u), matched |-> r.matched, invoked |-> r.invoked]
    IN  Reset(GotReplyFrom(u, 1, from, ptype, data))

\* handleReply: via is "loop" when the loop takes the reply and "closing"
\* when the select takes <-u.closing
handleReply(u, from, ptype, data, via) ==
    IF via = "loop" THEN LoopGotReply(u, from, ptype, data)
    ELSE [u |-> u, matched |-> FALSE, invoked |-> <<>>]

\* the timeout case without the comparison of the deadline with now
TimeoutFromAny(u, i) ==
    IF i > Len(u.plist) THEN u
    ELSE [Deliver(u, u.plist[i].caller, errTimeout)
             EXCEPT !.plist = RemoveAt(@, i), !.contTimeouts = @ + 1]

\* the timeout case leaving the entry it completed on the list
TimeoutFromKeepsEntry(u, i) ==
    IF i > Len(u.plist) THEN u
    ELSE IF u.now >= u.plist[i].deadline
         THEN [Deliver(u, u.plist[i].caller, errTimeout) EXCEPT !.contTimeouts = @ + 1]
         ELSE u

\* loop, case now := <-timeout.C: the scan of plist from its i-th entry on
RECURSIVE TimeoutFrom(_, _)
TimeoutFrom(u, i) ==
    IF i > Len(u.plist) THEN u
    ELSE LET p == u.plist[i]
         IN  IF u.now >= p.deadline
             THEN \* el.Next() is nil after plist.Remove(el)
                  [Deliver(u, p.caller, errTimeout)
                      EXCEPT !.plist = RemoveAt(@, i), !.contTimeouts = @ + 1]
             ELSE TimeoutFrom(u, i + 1)

\* the closing case with a scan that ends after the first entry
CloseFirst(u, i) ==
    IF i > Len(u.plist) THEN u ELSE Deliver(u, u.plist[i].caller, errClosed)

\* loop, case <-u.closing: every entry of plist gets errClosed
RECURSIVE CloseAll(_, _)
CloseAll(u, i) ==
    IF i > Len(u.plist) THEN u
    ELSE CloseAll(Deliver(u, u.plist[i].caller, errClosed), i + 1)

\* ------------------------------------------------------ the packet handlers

\* a packet written by u.send (ptype 1..8), or, with ptype 0, the start of
\* the goroutine u.bond(true, to, ...)
Sent(ptype, to, exp, rest, nodes, value) ==
    [ptype |-> ptype, to |-> to, exp |-> exp, rest |-> rest, nodes |-> nodes,
     value |-> value]

BONDSTART == 0
BondStart(to) == Sent(BONDSTART, to, 0, <<>>, <<>>, <<>>)

\* what a handler leaves: the state, its return value, what it sent and
\* the callbacks that ran
Handled(u, err, sent, inv) == [u |-> u, err |-> err, out |-> sent, invoked |-> inv]

\* ping.handle that leaves the table as it was when it withholds the pong
PingClassifyOnlyWhenAnswering(strictNodeCheck, nid, nt, req) ==
    LET Decided(c) ==
            [nodeType |-> IF strictNodeCheck /\ c.remoteNodeType # BrotherNode
                          THEN nt ELSE c.nodeType,
             remoteNodeType |-> c.remoteNodeType,
             sendPong |-> ~(strictNodeCheck /\ c.remoteNodeType # BrotherNode)]
    IN  Decided(processRestInPingPong(req.rest, nid, nt, req.from))

\* ping.handle, up to the decision to answer: the classification and sendPong
PingClassify(strictNodeCheck, nid, nt, req) ==
    LET Decided(c) ==
            [nodeType |-> c.nodeType,
             remoteNodeType |-> c.remoteNodeType,
             sendPong |-> ~(strictNodeCheck /\ c.remoteNodeType # BrotherNode)]
    IN  Decided(processRestInPingPong(req.rest, nid, nt, req.from))

\* ping.handle that starts the bond whatever handleReply returns
PingHandleAlwaysBonds(u, req, via) ==
    LET reply == Sent(PONGPACKET, req.from, Deadline(u.now), NetworkRest(u.networkid),
                      <<>>, <<>>)
        Answered(hr) ==
            Handled(hr.u, nil, <<reply, BondStart(req.from)>>, hr.invoked)
        Classified(c) ==
            IF c.sendPong
            THEN Answered(handleReply([u EXCEPT !.nodeType = c.nodeType], req.from,
                                     PINGPACKET, req, via))
            ELSE Handled([u EXCEPT !.nodeType = c.nodeType], nil, <<>>, <<>>)
    IN  IF expired(req.exp, u.now) THEN Handled(u, errExpired, <<>>, <<>>)
        ELSE Classified(PingClassify(u.strict, u.networkid, u.nodeType, req))

\* ping.handle
PingHandle(u, req, via) ==
    LET reply == Sent(PONGPACKET, req.from, Deadline(u.now), NetworkRest(u.networkid),
                      <<>>, <<>>)
        Answered(hr) ==
            Handled(hr.u, nil,
                    IF hr.matched THEN <<reply>> ELSE <<reply, BondStart(req.from)>>,
                    hr.invoked)
        Classified(c) ==
            IF c.sendPong
            THEN Answered(handleReply([u EXCEPT !.nodeType = c.nodeType], req.from,
                                     PINGPACKET, req, via))
            ELSE Handled([u EXCEPT !.nodeType = c.nodeType], nil, <<>>, <<>>)
    IN  IF expired(req.exp, u.now) THEN Handled(u, errExpired, <<>>, <<>>)
        ELSE Classified(PingClassify(u.strict, u.networkid, u.nodeType, req))

\* what a handler of a reply returns after handleReply
Replied(hr) ==
    Handled(hr.u, IF hr.matched THEN nil ELSE errUnsolicitedReply, <<>>, hr.invoked)

\* pong.handle classifying the sender only when the pong was matched
PongHandleClassifiesMatched(u, req, via) ==
    LET Classified(c, hr) ==
            Replied(IF hr.matched THEN [hr EXCEPT !.u.nodeType = c.nodeType] ELSE hr)
    IN  IF expired(req.exp, u.now) THEN Handled(u, errExpired, <<>>, <<>>)
        ELSE Classified(processRestInPingPong(req.rest, u.networkid, u.nodeType,
                                              req.from),
                        handleReply(u, req.from, PONGPACKET, req, via))

\* pong.handle
PongHandle(u, req, via) ==
    LET Classified(c) ==
            Replied(handleReply([u EXCEPT !.nodeType = c.nodeType], req.from,
                                PONGPACKET, req, via))
    IN  IF expired(req.exp, u.now) THEN Handled(u, errExpired, <<>>, <<>>)
        ELSE Classified(processRestInPingPong(req.rest, u.networkid, u.nodeType,
                                              req.from))

\* Table.closest(target, bucketSize, matchType).entries, of the nodes the
\* table holds in order of distance to the target
RECURSIVE SelectSeq2(_, _)
SelectSeq2(s, nt) ==
    IF Len(s) = 0 THEN <<>>
    ELSE (IF GetNodeType(nt, Head(s).id) = BrotherNode THEN <<Head(s)>> ELSE <<>>)
         \o SelectSeq2(Tail(s), nt)

closest(tableNodes, nt, brotherOnly) ==
    LET FirstOf(cand) ==
            SubSeq(cand, 1, IF Len(cand) < bucketSize THEN Len(cand) ELSE bucketSize)
    IN  FirstOf(IF brotherOnly THEN SelectSeq2(tableNodes, nt) ELSE tableNodes)

\* findnode.handle that sends the nodes that pass the relay check in one packet
SendChunksAtOnce(entries, i, cur, sent, to, exp) ==
    LET Packed(pass) ==
            IF pass = <<>> THEN sent
            ELSE Append(sent, Sent(NEIGHBORSPACKET, to, exp, <<>>, pass, <<>>))
    IN  Packed(SelectSeq(entries, LAMBDA n : CheckRelayIP(PeerIP(to), n.ip)))

\* findnode.handle, the loop that sends the closest nodes in chunks: cur is
\* p.Nodes and sent the packets written so far
RECURSIVE SendChunks(_, _, _, _, _, _)
SendChunks(entries, i, cur, sent, to, exp) ==
    IF i > Len(entries) THEN sent
    ELSE IF ~CheckRelayIP(PeerIP(to), entries[i].ip)
         THEN SendChunks(entries, i + 1, cur, sent, to, exp)
         ELSE LET nodes == Append(cur, entries[i])
              IN  IF Len(nodes) = maxNeighbors \/ i = Len(entries)
                  THEN SendChunks(entries, i + 1, <<>>,
                           Append(sent, Sent(NEIGHBORSPACKET, to, exp, <<>>, nodes, <<>>)),
                           to, exp)
                  ELSE SendChunks(entries, i + 1, nodes, sent, to, exp)

\* findnode.handle without the check for a bond
FindnodeHandleNoBondCheck(u, req, tableNodes) ==
    LET BrotherOnly(flag) == flag.ok /\ flag.val = 1
        brotherOnly == Len(req.rest) > 0 /\ BrotherOnly(Atoi(Tail(req.rest[1])))
    IN  IF expired(req.exp, u.now) THEN Handled(u, errExpired, <<>>, <<>>)
        ELSE Handled(u, nil,
                     SendChunks(closest(tableNodes, u.nodeType, brotherOnly), 1, <<>>,
                                <<>>, req.from, Deadline(u.now)),
                     <<>>)

\* findnode.handle
FindnodeHandle(u, req, tableNodes) ==
    LET BrotherOnly(flag) == flag.ok /\ flag.val = 1
        brotherOnly == Len(req.rest) > 0 /\ BrotherOnly(Atoi(Tail(req.rest[1])))
    IN  IF expired(req.exp, u.now) THEN Handled(u, errExpired, <<>>, <<>>)
        ELSE IF req.from \notin u.db THEN Handled(u, errUnknownNode, <<>>, <<>>)
        ELSE Handled(u, nil,
                     SendChunks(closest(tableNodes, u.nodeType, brotherOnly), 1, <<>>,
                                <<>>, req.from, Deadline(u.now)),
                     <<>>)

\* neighbors.handle
NeighborsHandle(u, req, via) ==
    IF expired(req.exp, u.now) THEN Handled(u, errExpired, <<>>, <<>>)
    ELSE Replied(handleReply(u, req.from, NEIGHBORSPACKET, req, via))

\* the most values the table keeps under one key
KeyCapacity == 2

\* Table.SetKey(key, value, fromID): whether the value was stored, and the store
SetKey(store, key, fromID) ==
    IF fromID \in store[key] THEN [ok |-> TRUE, kv |-> store]
    ELSE IF Cardinality(store[key]) >= KeyCapacity THEN [ok |-> FALSE, kv |-> store]
    ELSE [ok |-> TRUE, kv |-> [store EXCEPT ![key] = @ \cup {fromID}]]

\* Table.GetKey(key): the owners of the values held under key
GetKey(store, key) == store[key]

\* store.handle without the check for a bond
StoreHandleNoBondCheck(u, req) ==
    IF expired(req.exp, u.now) THEN Handled(u, errExpired, <<>>, <<>>)
    ELSE LET r == SetKey(u.kv, req.key, req.from)
         IN  Handled([u EXCEPT !.kv = r.kv], nil,
                     <<Sent(STOREREPLYPACKET, req.from, Deadline(u.now), <<>>, <<>>, <<>>)>>,
                     <<>>)

\* store.handle
StoreHandle(u, req) ==
    IF expired(req.exp, u.now) THEN Handled(u, errExpired, <<>>, <<>>)
    ELSE IF req.from \notin u.db THEN Handled(u, errUnknownNode, <<>>, <<>>)
    ELSE LET r == SetKey(u.kv, req.key, req.from)
         IN  Handled([u EXCEPT !.kv = r.kv], nil,
                     <<Sent(STOREREPLYPACKET, req.from, Deadline(u.now), <<>>, <<>>, <<>>)>>,
                     <<>>)

\* storeReply.handle
StoreReplyHandle(u, req) ==
    IF expired(req.exp, u.now) THEN Handled(u, errExpired, <<>>, <<>>)
    ELSE Handled(u, nil, <<>>, <<>>)

\* params.SubnetBootNodeLimits
SubnetBootNodeLimits == 1

\* findvalue.handle that writes every value of the key in each case
SelectionsAll(owners) ==
    LET n == Cardinality(owners)
    IN  {sel \in [1..n -> owners] : \A i, j \in 1..n : i # j => sel[i] # sel[j]}

\* the orders in which findvalue.handle can write the values of a key: every
\* order of all of them (ranging over a map), or of SubnetBootNodeLimits of
\* them after the shuffle
Selections(owners) ==
    LET n == Cardinality(owners)
        k == IF n > SubnetBootNodeLimits THEN SubnetBootNodeLimits ELSE n
    IN  {sel \in [1..k -> owners] : \A i, j \in 1..k : i # j => sel[i] # sel[j]}

\* the values of sel, each followed by a comma
RECURSIVE JoinValues(_)
JoinValues(sel) ==
    IF Len(sel) = 0 THEN <<>>
    ELSE EnodeURL(Head(sel)) \o <<COMMA>> \o JoinValues(Tail(sel))

\* findvalue.handle with the bond check of findnode.handle and store.handle
FindvalueHandleBondedOnly(u, req, sel) ==
    IF expired(req.exp, u.now) THEN Handled(u, errExpired, <<>>, <<>>)
    ELSE IF req.from \notin u.db THEN Handled(u, errUnknownNode, <<>>, <<>>)
    ELSE Handled(u, nil,
                 <<Sent(FINDVALUEREPLYPACKET, req.from, Deadline(u.now), <<>>, <<>>,
                        JoinValues(sel))>>,
                 <<>>)

\* findvalue.handle; sel is the order the map and the shuffle produce
FindvalueHandle(u, req, sel) ==
    IF expired(req.exp, u.now) THEN Handled(u, errExpired, <<>>, <<>>)
    ELSE Handled(u, nil,
                 <<Sent(FINDVALUEREPLYPACKET, req.from, Deadline(u.now), <<>>, <<>>,
                        JoinValues(sel))>>,
                 <<>>)

\* findvalueReply.handle
FindvalueReplyHandle(u, req, via) ==
    IF expired(req.exp, u.now) THEN Handled(u, errExpired, <<>>, <<>>)
    ELSE Replied(handleReply(u, req.from, FINDVALUEREPLYPACKET, req, via))

\* packet.handle, by the type decodePacket found
TypedHandle(u, req, via, tableNodes, sel) ==
    CASE req.ptype = PINGPACKET -> PingHandle(u, req, via)
      [] req.ptype = PONGPACKET -> PongHandle(u, req, via)
      [] req.ptype = FINDNODEPACKET -> FindnodeHandle(u, req, tableNodes)
      [] req.ptype = NEIGHBORSPACKET -> NeighborsHandle(u, req, via)
      [] req.ptype = STOREPACKET -> StoreHandle(u, req)
      [] req.ptype = STOREREPLYPACKET -> StoreReplyHandle(u, req)
      [] req.ptype = FINDVALUEPACKET -> FindvalueHandle(u, req, sel)
      [] req.ptype = FINDVALUEREPLYPACKET -> FindvalueReplyHandle(u, req, via)

\* handlePacket with the check of the sender's type left to the typed
\* handlers of all packets but pings
handlePacketPingsPass(u, req, via, tableNodes, sel) ==
    IF GetNodeType(u.nodeType, req.from) = AlienNode /\ req.ptype # PINGPACKET
    THEN Handled(u, errAlien, <<>>, <<>>)
    ELSE IF req.err # nil THEN Handled(u, req.err, <<>>, <<>>)
    ELSE TypedHandle(u, req, via, tableNodes, sel)

\* handlePacket without the check of the sender's type
handlePacketNoAlienCheck(u, req, via, tableNodes, sel) ==
    IF req.err # nil THEN Handled(u, req.err, <<>>, <<>>)
    ELSE TypedHandle(u, req, via, tableNodes, sel)

\* handlePacket with the error of decodePacket looked at only where
\* decodePacket returned no packet
handlePacketOfAnyBody(u, req, via, tableNodes, sel) ==
    IF GetNodeType(u.nodeType, req.from) = AlienNode
    THEN Handled(u, errAlien, <<>>, <<>>)
    ELSE IF req.err # nil /\ req.ptype = 0 THEN Handled(u, req.err, <<>>, <<>>)
    ELSE TypedHandle(u, req, via, tableNodes, sel)

\* handlePacket: req is what decodePacket returned (req.err its error, req.from
\* the NodeID it recovered, the zero NodeID when it recovered none)
handlePacket(u, req, via, tableNodes, sel) ==
    IF GetNodeType(u.nodeType, req.from) = AlienNode
    THEN Handled(u, errAlien, <<>>, <<>>)
    ELSE IF req.err # nil THEN Handled(u, req.err, <<>>, <<>>)
    ELSE TypedHandle(u, req, via, tableNodes, sel)

\* ------------------------------------------------------- the wire codec

\* The frame of a packet, in cells: the hash, the signature, then the type
\* byte and the fields of the body.
macSize == 1
sigSize == 1
headSize == macSize + sigSize

\* crypto.Keccak256, crypto.Sign and recoverNodeID, as terms: a hash is the
\* hash of its input only, a signature is recovered with the hash it signs only
Keccak256(b) == [keccak |-> b]
Sign(h, priv) == [signed |-> h, by |-> priv]
PubkeyID(priv) == priv.secret
recoverNodeID(h, sig) ==
    IF sig.signed = h THEN [id |-> PubkeyID(sig.by), err |-> nil]
    ELSE [id |-> ZeroID, err |-> errBadSignature]

\* the fields of each packet struct that rlp writes and reads, in their
\* order: the exported ones
Exported(ptype) ==
    CASE ptype = PINGPACKET -> <<"Version", "From", "To", "Expiration", "Rest">>
      [] ptype = PONGPACKET -> <<"To", "ReplyTok", "Expiration", "Rest">>
      [] ptype = FINDNODEPACKET -> <<"Target", "Expiration", "Rest">>
      [] ptype = NEIGHBORSPACKET -> <<"Nodes", "Expiration", "Rest">>
      [] ptype = STOREPACKET -> <<"Key", "From", "Expiration", "Value">>
      [] ptype = STOREREPLYPACKET -> <<"Expiration">>
      [] ptype = FINDVALUEPACKET -> <<"Key", "Expiration">>
      [] ptype = FINDVALUEREPLYPACKET -> <<"Key", "Value", "Expiration">>

\* new(ping), new(pong), ...: the struct of a type with every field zero
NewPacket(ptype) ==
    LET endpoint == [ip |-> "", udp |-> 0, tcp |-> 0]
    IN  CASE ptype = PINGPACKET ->
               [Version |-> 0, From |-> endpoint, To |-> endpoint, Expiration |-> 0,
                Rest |-> <<>>]
          [] ptype = PONGPACKET ->
               [To |-> endpoint, ReplyTok |-> <<>>, Expiration |-> 0, Rest |-> <<>>]
          [] ptype = FINDNODEPACKET -> [Target |-> 0, Expiration |-> 0, Rest |-> <<>>]
          [] ptype = NEIGHBORSPACKET -> [Nodes |-> <<>>, Expiration |-> 0, Rest |-> <<>>]
          [] ptype = STOREPACKET ->
               [Key |-> 0, From |-> endpoint, Expiration |-> 0, Value |-> <<>>]
          [] ptype = STOREREPLYPACKET -> [Expiration |-> 0, result |-> FALSE]
          [] ptype = FINDVALUEPACKET -> [Key |-> 0, Expiration |-> 0]
          [] ptype = FINDVALUEREPLYPACKET ->
               [Key |-> <<>>, Value |-> <<>>, Expiration |-> 0]

\* encodePacket: the head, the type byte and rlp.Encode(req); the signature
\* of the hash of what follows the head; the hash of what follows the hash
encodePacket(priv, ptype, req) ==
    LET fields == Exported(ptype)
        sigdata == <<ptype>> \o [i \in 1..Len(fields) |-> req[fields[i]]]
        signed == <<Sign(Keccak256(sigdata), priv)>> \o sigdata
    IN  <<Keccak256(signed)>> \o signed

\* decodePacket: the request, the NodeID of the signer, the hash and the error
decodePacket(buf) ==
    LET hash == SubSeq(buf, 1, macSize)
        sig == buf[headSize]
        sigdata == SubSeq(buf, headSize + 1, Len(buf))
        ptype == sigdata[1]
        body == Tail(sigdata)
        fields == Exported(ptype)
        Filled(zero) ==
            [f \in DOMAIN zero |->
                IF \E i \in 1..Len(fields) : fields[i] = f
                THEN body[CHOOSE i \in 1..Len(fields) : fields[i] = f]
                ELSE zero[f]]
        Typed(fromID) ==
            IF ptype \notin PINGPACKET..FINDVALUEREPLYPACKET
            THEN [req |-> nil, fromID |-> fromID, hash |-> hash, err |-> errUnknownType]
            ELSE IF Len(body) # Len(fields)
            THEN [req |-> NewPacket(ptype), fromID |-> fromID, hash |-> hash,
                  err |-> errDecode]
            ELSE [req |-> Filled(NewPacket(ptype)), fromID |-> fromID, hash |-> hash,
                  err |-> nil]
        Recovered(r) ==
            IF r.err # nil
            THEN [req |-> nil, fromID |-> ZeroID, hash |-> hash, err |-> r.err]
            ELSE Typed(r.id)
    IN  IF Len(buf) < headSize + 1
        THEN [req |-> nil, fromID |-> ZeroID, hash |-> <<>>, err |-> errPacketTooSmall]
        ELSE IF hash # <<Keccak256(SubSeq(buf, macSize + 1, Len(buf)))>>
        THEN [req |-> nil, fromID |-> ZeroID, hash |-> <<>>, err |-> errBadHash]
        ELSE Recovered(recoverNodeID(Keccak256(sigdata), sig))

\* no message is on its way
NoWire == [stage |-> "none"]

\* ------------------------------------------------------------- the inputs

\* what decodePacket returns for a packet
Req(err, from, ptype, exp, rest, nodes, key, value) ==
    [err |-> err, from |-> from, ptype |-> ptype, exp |-> exp, rest |-> rest,
     nodes |-> nodes, key |-> key, value |-> value]

\* the network identifiers a node is configured with
LocalIds == {0, 1, MaxInt + 1}

\* the Rest fields of the pings and pongs that arrive: none, the one a peer
\* of each network sends, a text of one byte, and a text that is no number
RestChoices ==
    {<<>>}
    \cup {NetworkRest(n) : n \in {0, 1, 2, MaxInt + 1}}
    \cup {<<RlpEncodeString(<<CHAR0 + 1>>)>>, <<RlpEncodeString(<<CHARX, TAB>>)>>}

\* an Expiration stamp that has passed at time t (when t is past second 0),
\* the stamp of the second of t, and one that has not passed
Stale(t) == Unix(t) - 1
Same(t) == Unix(t)
Fresh(t) == Unix(t) + 1

RpcNode(id, ip, udp) == [id |-> id, ip |-> ip, udp |-> udp]
GoodNode(id) == RpcNode(id, PeerIP(id), 1025)

Keys == {1}

\* packets that decodePacket rejects
Undecodable ==
    {Req(e, ZeroID, 0, 0, <<>>, <<>>, 0, <<>>) : e \in {errPacketTooSmall, errBadHash}}
    \cup {Req(errUnknownType, f, 0, 0, <<>>, <<>>, 0, <<>>) : f \in Peers}
    \cup {Req(errBadSignature, ZeroID, 0, 0, <<>>, <<>>, 0, <<>>)}
    \cup {Req(errDecode, f, t, 0, <<>>, <<>>, 1, <<>>) :
             f \in Peers, t \in PINGPACKET..FINDVALUEREPLYPACKET}

Pings(exps, rests) ==
    {Req(nil, f, PINGPACKET, e, r, <<>>, 0, <<>>) : f \in Peers, e \in exps, r \in rests}

Pongs(exps, rests) ==
    {Req(nil, f, PONGPACKET, e, r, <<>>, 0, <<>>) : f \in Peers, e \in exps, r \in rests}

Findnodes(exps, rests) ==
    {Req(nil, f, FINDNODEPACKET, e, r, <<>>, 0, <<>>) : f \in Peers, e \in exps, r \in rests}

Neighbors(exps, lists) ==
    {Req(nil, f, NEIGHBORSPACKET, e, <<>>, l, 0, <<>>) : f \in Peers, e \in exps, l \in lists}

Stores(exps) ==
    {Req(nil, f, STOREPACKET, e, <<>>, <<>>, k, <<>>) : f \in Peers, e \in exps, k \in Keys}

\* store packets with a Value field
StoresWith(exps, values) ==
    {Req(nil, f, STOREPACKET, e, <<>>, <<>>, k, v) :
        f \in Peers, e \in exps, k \in Keys, v \in values}

StoreReplies(exps) ==
    {Req(nil, f, STOREREPLYPACKET, e, <<>>, <<>>, 0, <<>>) : f \in Peers, e \in exps}

Findvalues(exps) ==
    {Req(nil, f, FINDVALUEPACKET, e, <<>>, <<>>, k, <<>>) : f \in Peers, e \in exps, k \in Keys}

FindvalueReplies(exps, values) ==
    {Req(nil, f, FINDVALUEREPLYPACKET, e, <<>>, <<>>, k, v) :
        f \in Peers, e \in exps, k \in Keys, v \in values}

\* the packet types whose handler calls handleReply
ReplyTypes == {PINGPACKET, PONGPACKET, NEIGHBORSPACKET, FINDVALUEREPLYPACKET}

\* ------------------------------------------------------------ the actions

IdleCall ==
    [pc |-> "idle", op |-> "none", ptype |-> 0, to |-> 0, strict |-> FALSE,
     nreceived |-> 0, nodes |-> <<>>]

\* the packet type each request waits for
ExpectedType(op) ==
    CASE op = "ping" -> PONGPACKET
      [] op = "waitping" -> PINGPACKET
      [] op = "findnode" -> NEIGHBORSPACKET
      [] op = "findvalue" -> FINDVALUEREPLYPACKET

\* a request: its kind, the peer, and findnode's strictNodeCheck
Call(op, to, strictNodeCheck) == [op |-> op, to |-> to, strict |-> strictNodeCheck]

\* the state of this node after newUDP
InitNode ==
    /\ now = StartTime
    /\ jumps = 0
    /\ networkid \in LocalIds
    /\ strict \in BOOLEAN
    /\ nodeType = [id \in NodeIDs |-> UnknownNode]
    /\ db = Peers \ {MaxPeers}
    /\ kv = [k \in Keys |-> {}]
    /\ fallback = <<>>
    /\ plist = <<>>
    /\ nextTimeout = 0
    /\ timer = -1
    /\ timerC = FALSE
    /\ contTimeouts = 0
    /\ ntpWarnTime = 0 - ntpWarningCooldown
    /\ driftChecks = 0
    /\ closing = FALSE
    /\ loopRunning = TRUE
    /\ calls = [c \in CallerIds |-> IdleCall]
    /\ results = [c \in CallerIds |-> <<>>]
    /\ out = <<>>
    /\ lastErr = "none"
    /\ invoked = <<>>
    /\ lastType = 0

\* a peer as a node: its configuration, its classification of this node and
\* what it has sent
RemoteNode(nid, strictNodeCheck) ==
    [networkid |-> nid, strict |-> strictNodeCheck, nodeType |-> UnknownNode,
     sent |-> <<>>]

\* no allow-list is configured
NoNetrestrict == [nil |-> TRUE, list |-> {}]

\* newUnconfirmedBlocks(chain, depth): no ring yet
newUnconfirmedBlocks(depth) == [depth |-> depth, blocks |-> <<>>]

\* the node without an allow-list and with a miner that has mined nothing
InitRest ==
    /\ netrestrict = NoNetrestrict
    /\ unconfirmed = newUnconfirmedBlocks(0)
    /\ mined = 0

\* the peers are followed as senders of packets only
Init ==
    /\ InitNode
    /\ remote = [p \in Peers |-> RemoteNode(0, FALSE)]
    /\ wire = NoWire
    /\ InitRest

\* the variables a handler or the loop leaves in the world u
SetWorld(u) ==
    /\ nodeType' = u.nodeType
    /\ kv' = u.kv
    /\ fallback' = u.fallback
    /\ plist' = u.plist
    /\ nextTimeout' = u.nextTimeout
    /\ timer' = u.timer
    /\ timerC' = u.timerC
    /\ contTimeouts' = u.contTimeouts
    /\ calls' = u.calls
    /\ results' = u.results

\* no packet handled, nothing sent, no callback run in this step
Quiet == out' = <<>> /\ lastErr' = "none" /\ invoked' = <<>> /\ lastType' = 0

\* the ways handleReply's select can go: the loop takes the reply, or, once
\* u.closing is closed, the select may take that case
Vias == IF closing THEN {"loop", "closing"} ELSE {"loop"}

\* readLoop: one packet is read and handlePacket runs on it.  Packets are
\* followed while the loop runs.
Receive(req, via, tableNodes, sel) ==
    LET Returned(h) ==
            /\ SetWorld(h.u)
            /\ out' = h.out
            /\ lastErr' = h.err
            /\ invoked' = h.invoked
            /\ lastType' = IF req.err # nil \/ h.err = errAlien THEN 0 ELSE req.ptype
    IN  /\ loopRunning
        /\ Returned(handlePacket(World, req, via, tableNodes, sel))
        /\ UNCHANGED <<now, jumps, networkid, strict, db, ntpWarnTime, driftChecks,
                       closing, loopRunning>>

ReadLoop(packets, tables) ==
    \E req \in packets :
        \E via \in (IF req.ptype \in ReplyTypes THEN Vias ELSE {"loop"}) :
            \E tableNodes \in (IF req.ptype = FINDNODEPACKET THEN tables ELSE {<<>>}) :
                \E sel \in (IF req.ptype = FINDVALUEPACKET
                             THEN Selections(GetKey(kv, req.key)) ELSE {<<>>}) :
                    /\ Receive(req, via, tableNodes, sel)
                    /\ UNCHANGED <<remote, wire, netrestrict, unconfirmed, mined>>

\* the request ch as the caller of addPending has set it up
NewCall(ch) ==
    [IdleCall EXCEPT !.pc = IF ch.op = "waitping" THEN "waiting" ELSE "added",
                     !.op = ch.op, !.ptype = ExpectedType(ch.op),
                     !.to = ch.to, !.strict = ch.strict]

\* the request packet of ping, findnode and findvalue
Request(call, t, nid) ==
    CASE call.op = "ping" ->
           Sent(PINGPACKET, call.to, Deadline(t), NetworkRest(nid), <<>>, <<>>)
      [] call.op = "findnode" ->
           Sent(FINDNODEPACKET, call.to, Deadline(t),
                <<RlpEncodeString(FormatUint(IF call.strict THEN 1 ELSE 0))>>, <<>>, <<>>)
      [] call.op = "findvalue" ->
           Sent(FINDVALUEPACKET, call.to, Deadline(t), <<>>, <<>>, <<>>)

\* addPending left until after the send: the request goes out with no entry
\* on the loop's list
AddPendingSendsFirst(c, ch) ==
    /\ calls[c].pc = "idle"
    /\ loopRunning
    /\ calls' = [calls EXCEPT ![c] = [NewCall(ch) EXCEPT !.pc = "waiting"]]
    /\ out' = <<Request(NewCall(ch), now, networkid)>>
    /\ UNCHANGED <<now, jumps, networkid, strict, nodeType, db, kv, fallback, plist,
                   nextTimeout, timer, timerC, contTimeouts, ntpWarnTime, driftChecks,
                   closing, loopRunning, results, lastErr, invoked, lastType,
                   remote, wire, netrestrict, unconfirmed, mined>>

\* addPending when the loop takes the entry: the case p := <-u.pendings of
\* loop and the resetTimeout after it
AddPending(c, ch) ==
    /\ calls[c].pc = "idle"
    /\ \A d \in CallerIds : d < c => calls[d].pc # "idle"
    /\ loopRunning
    /\ SetWorld(resetTimeout(LoopAddPending([World EXCEPT !.calls[c] = NewCall(ch)], c)))
    /\ Quiet
    /\ UNCHANGED <<remote, wire, netrestrict, unconfirmed, mined>>
    /\ UNCHANGED <<now, jumps, networkid, strict, db, ntpWarnTime, driftChecks,
                   closing, loopRunning>>

\* addPending when its select takes <-u.closing
AddPendingClosed(c, ch) ==
    /\ calls[c].pc = "idle"
    /\ \A d \in CallerIds : d < c => calls[d].pc # "idle"
    /\ closing
    /\ calls' = [calls EXCEPT ![c] = NewCall(ch)]
    /\ results' = [results EXCEPT ![c] = Append(@, errClosed)]
    /\ Quiet
    /\ UNCHANGED <<remote, wire, netrestrict, unconfirmed, mined>>
    /\ UNCHANGED <<now, jumps, networkid, strict, nodeType, db, kv, fallback, plist,
                   nextTimeout, timer, timerC, contTimeouts, ntpWarnTime, driftChecks,
                   closing, loopRunning>>

\* ping, findnode, findvalue: u.send of the request, after addPending
SendRequest(c) ==
    /\ calls[c].pc = "added"
    /\ calls' = [calls EXCEPT ![c].pc = "waiting"]
    /\ out' = <<Request(calls[c], now, networkid)>>
    /\ lastErr' = "none"
    /\ invoked' = <<>>
    /\ lastType' = 0
    /\ UNCHANGED <<remote, wire, netrestrict, unconfirmed, mined>>
    /\ UNCHANGED <<now, jumps, networkid, strict, nodeType, db, kv, fallback, plist,
                   nextTimeout, timer, timerC, contTimeouts, ntpWarnTime, driftChecks,
                   closing, loopRunning, results>>

\* store: a goroutine sends the store packet to a node
SendStore(to, key) ==
    /\ ~closing
    /\ out' = <<Sent(STOREPACKET, to, Deadline(now), <<>>, <<>>, EnodeURL(ZeroID))>>
    /\ lastErr' = "none"
    /\ invoked' = <<>>
    /\ lastType' = 0
    /\ UNCHANGED <<remote, wire, netrestrict, unconfirmed, mined>>
    /\ UNCHANGED <<now, jumps, networkid, strict, nodeType, db, kv, fallback, plist,
                   nextTimeout, timer, timerC, contTimeouts, ntpWarnTime, driftChecks,
                   closing, loopRunning, calls, results>>

\* the timeout case with the drift check at the threshold itself
LoopTimeoutAtThreshold ==
    LET Checked(u1) ==
            /\ SetWorld(resetTimeout(IF u1.contTimeouts >= ntpFailureThreshold
                                     THEN [u1 EXCEPT !.contTimeouts = 0] ELSE u1))
            /\ IF /\ u1.contTimeouts >= ntpFailureThreshold
                  /\ now - ntpWarnTime >= ntpWarningCooldown
               THEN ntpWarnTime' = now /\ driftChecks' = driftChecks + 1
               ELSE UNCHANGED <<ntpWarnTime, driftChecks>>
    IN  /\ loopRunning
        /\ timerC
        /\ Checked(TimeoutFrom([World EXCEPT !.timerC = FALSE, !.nextTimeout = 0], 1))
        /\ Quiet
        /\ UNCHANGED <<remote, wire, netrestrict, unconfirmed, mined>>
        /\ UNCHANGED <<now, jumps, networkid, strict, db, closing, loopRunning>>

\* loop, case now := <-timeout.C, and the resetTimeout after it
LoopTimeout ==
    LET Checked(u1) ==
            /\ SetWorld(resetTimeout(IF u1.contTimeouts > ntpFailureThreshold
                                     THEN [u1 EXCEPT !.contTimeouts = 0] ELSE u1))
            /\ IF /\ u1.contTimeouts > ntpFailureThreshold
                  /\ now - ntpWarnTime >= ntpWarningCooldown
               THEN ntpWarnTime' = now /\ driftChecks' = driftChecks + 1
               ELSE UNCHANGED <<ntpWarnTime, driftChecks>>
    IN  /\ loopRunning
        /\ timerC
        /\ Checked(TimeoutFrom([World EXCEPT !.timerC = FALSE, !.nextTimeout = 0], 1))
        /\ Quiet
        /\ UNCHANGED <<remote, wire, netrestrict, unconfirmed, mined>>
        /\ UNCHANGED <<now, jumps, networkid, strict, db, closing, loopRunning>>

\* loop, case <-u.closing: every pending entry gets errClosed, the loop returns
LoopClosing ==
    /\ loopRunning
    /\ closing
    /\ SetWorld(TimerStop(CloseAll(World, 1)))
    /\ loopRunning' = FALSE
    /\ Quiet
    /\ UNCHANGED <<remote, wire, netrestrict, unconfirmed, mined>>
    /\ UNCHANGED <<now, jumps, networkid, strict, db, ntpWarnTime, driftChecks,
                   closing>>

\* close
Close ==
    /\ ~closing
    /\ closing' = TRUE
    /\ Quiet
    /\ UNCHANGED <<remote, wire, netrestrict, unconfirmed, mined>>
    /\ UNCHANGED <<now, jumps, networkid, strict, nodeType, db, kv, fallback, plist,
                   nextTimeout, timer, timerC, contTimeouts, ntpWarnTime, driftChecks,
                   loopRunning, calls, results>>

\* a tick of the clocks, followed while the loop runs; the loop takes a
\* value that waits in timeout.C before the next tick
Tick ==
    /\ now < MaxTime
    /\ loopRunning
    /\ ~timerC
    /\ now' = now + 1
    /\ timer' = IF timer = 1 THEN -1 ELSE IF timer > 1 THEN timer - 1 ELSE timer
    /\ timerC' = (timer = 1)
    /\ Quiet
    /\ UNCHANGED <<remote, wire, netrestrict, unconfirmed, mined>>
    /\ UNCHANGED <<jumps, networkid, strict, nodeType, db, kv, fallback, plist,
                   nextTimeout, contTimeouts, ntpWarnTime, driftChecks, closing,
                   loopRunning, calls, results>>

\* the system clock is set back to t; the timer runs on
ClockJump(t) ==
    /\ jumps < MaxJumps
    /\ t < now
    /\ loopRunning
    /\ ~timerC
    /\ now' = t
    /\ jumps' = jumps + 1
    /\ Quiet
    /\ UNCHANGED <<remote, wire, netrestrict, unconfirmed, mined>>
    /\ UNCHANGED <<networkid, strict, nodeType, db, kv, fallback, plist, nextTimeout,
                   timer, timerC, contTimeouts, ntpWarnTime, driftChecks, closing,
                   loopRunning, calls, results>>

\* ------------------------------------------------------ the specifications

\* The dispatcher and the handlers at one instant: the pings and pongs of
\* every kind, a packet of each other type from each peer, packets that
\* fail to decode, and one request of ping or waitping.
SpecPackets(t) ==
    Undecodable
    \cup Pings({Stale(t), Same(t)}, RestChoices)
    \cup Pongs({Stale(t), Same(t)}, RestChoices)
    \cup Findnodes({Same(t)}, {<<>>})
    \cup Neighbors({Same(t)}, {<<GoodNode(1)>>})
    \cup Stores({Same(t)})
    \cup StoreReplies({Same(t)})
    \cup Findvalues({Same(t)})
    \cup FindvalueReplies({Same(t)}, {EnodeURL(1) \o <<COMMA>>})

SpecTables == {<<GoodNode(1), GoodNode(2), RpcNode(2, "wan", 1025)>>}

SpecCalls == {Call(op, p, FALSE) : op \in {"ping", "waitping"}, p \in Peers}

Next ==
    \/ ReadLoop(SpecPackets(now), SpecTables)
    \/ \E ch \in SpecCalls : AddPending(1, ch)
    \/ SendRequest(1)

Spec == Init /\ [][Next]_vars

\* The pending-reply loop: several requests outstanding, the replies that
\* can arrive for them, shutdown, and a system clock that can be set back;
\* all peers are of the node's own network.
LoopPackets(t) ==
    Pongs({Fresh(t)}, {<<>>})
    \cup {req \in Neighbors({Fresh(t)}, {<<GoodNode(1)>>, <<GoodNode(1), GoodNode(2)>>}) :
             req.from = 1}

LoopCalls == {Call("ping", p, FALSE) : p \in Peers} \cup {Call("findnode", 1, FALSE)}

LoopInit == Init /\ networkid = 1 /\ ~strict

LoopNext ==
    \/ ReadLoop(LoopPackets(now), {<<>>})
    \/ \E c \in CallerIds, ch \in LoopCalls : AddPending(c, ch)
    \/ \E c \in CallerIds, ch \in LoopCalls : AddPendingClosed(c, ch)
    \/ LoopTimeout
    \/ LoopClosing
    \/ Close
    \/ Tick
    \/ \E t \in 0..MaxTime : ClockJump(t)

LoopSpec == LoopInit /\ [][LoopNext]_vars

\* Two nodes that run this code: this node pings its peers, each peer handles
\* the ping as a node of its own and its pong comes back.  The bond a peer
\* starts on an unsolicited ping is the table's and is not followed.
RemoteIds == LocalIds \cup {2}

\* the state of the peer p as a udp of its own, at the same wall clock
RemoteWorld(p) ==
    [World EXCEPT !.networkid = remote[p].networkid,
                  !.strict = remote[p].strict,
                  !.nodeType = [id \in NodeIDs |->
                                   IF id = SelfID THEN remote[p].nodeType ELSE UnknownNode],
                  !.db = {}, !.kv = [k \in Keys |-> {}], !.fallback = <<>>,
                  !.plist = <<>>, !.nextTimeout = 0, !.timer = -1, !.timerC = FALSE,
                  !.contTimeouts = 0,
                  !.calls = [c \in CallerIds |-> IdleCall],
                  !.results = [c \in CallerIds |-> <<>>]]

\* a packet as it arrives from the node sender
Arrives(m, sender) == Req(nil, sender, m.ptype, m.exp, m.rest, m.nodes, 0, m.value)

\* what a node has written to the wire (the start of a bond is none of it)
OnWire(sent) == SelectSeq(sent, LAMBDA m : m.ptype # BONDSTART)

\* the peer p reads the packet this node has just sent to it: its readLoop
\* and handlePacket
RemoteReceive(p) ==
    LET Returned(h) ==
            remote' = [remote EXCEPT ![p].nodeType = h.u.nodeType[SelfID],
                                     ![p].sent = @ \o OnWire(h.out)]
    IN  /\ Len(out) = 1
        /\ out[1].to = p
        /\ out[1].ptype # BONDSTART
        /\ Returned(handlePacket(RemoteWorld(p), Arrives(out[1], SelfID), "loop",
                                 <<>>, <<>>))
        /\ Quiet
        /\ UNCHANGED <<wire, netrestrict, unconfirmed, mined>>
        /\ UNCHANGED <<now, jumps, networkid, strict, nodeType, db, kv, fallback, plist,
                       nextTimeout, timer, timerC, contTimeouts, ntpWarnTime,
                       driftChecks, closing, loopRunning, calls, results>>

\* this node reads the next packet the peer p has sent to it
ReceiveRemote(p) ==
    /\ remote[p].sent # <<>>
    /\ Receive(Arrives(Head(remote[p].sent), p), "loop", <<>>, <<>>)
    /\ remote' = [remote EXCEPT ![p].sent = Tail(@)]
    /\ UNCHANGED <<wire, netrestrict, unconfirmed, mined>>

PairCalls == {Call("ping", p, FALSE) : p \in Peers}

PairInit ==
    /\ InitNode
    /\ remote \in [Peers -> {RemoteNode(nid, s) : nid \in RemoteIds, s \in BOOLEAN}]
    /\ wire = NoWire
    /\ InitRest

PairNext ==
    \/ \E c \in CallerIds, ch \in PairCalls : AddPending(c, ch)
    \/ \E c \in CallerIds : SendRequest(c)
    \/ \E p \in Peers : RemoteReceive(p)
    \/ \E p \in Peers : ReceiveRemote(p)

PairSpec == PairInit /\ [][PairNext]_vars

\* A node that serves the requests of its peers: findnode over every table
\* of up to bucketSize + 1 nodes that pass or fail the relay check, store and
\* findvalue, pings that classify the peers, and bonds that complete.
Bond(p) ==
    /\ p \notin db
    /\ db' = db \cup {p}
    /\ Quiet
    /\ UNCHANGED <<remote, wire, netrestrict, unconfirmed, mined>>
    /\ UNCHANGED <<now, jumps, networkid, strict, nodeType, kv, fallback, plist,
                   nextTimeout, timer, timerC, contTimeouts, ntpWarnTime, driftChecks,
                   closing, loopRunning, calls, results>>

\* a Rest field of findnode from which the handler reads the flag 1
BrotherFlag == <<RlpEncodeString(<<CHAR0, CHAR0 + 1>>)>>

ServeNodes == {RpcNode(1, "wan", 1025), RpcNode(2, "lan", 1025)}

ServeTables == UNION {[1..n -> ServeNodes] : n \in 0..(bucketSize + 1)}

ServePackets(t) ==
    Pings({Fresh(t)}, {NetworkRest(1), NetworkRest(2)})
    \cup Findnodes({Fresh(t)}, {<<>>, BrotherFlag})
    \cup StoresWith({Fresh(t)}, {EnodeURL(p) : p \in Peers})
    \cup Findvalues({Fresh(t)})

ServeInit == Init /\ networkid = 1 /\ ~strict

ServeNext ==
    \/ ReadLoop(ServePackets(now), ServeTables)
    \/ \E p \in Peers : Bond(p)

ServeSpec == ServeInit /\ [][ServeNext]_vars

\* The loop of a node that has run for a while: its requests have timed out
\* up to ntpFailureThreshold times in a row, and its last drift check is
\* either long ago or two ticks short of ntpWarningCooldown ago.
DriftCalls == {Call("ping", p, FALSE) : p \in Peers}

DriftInit ==
    /\ now = StartTime
    /\ jumps = 0
    /\ networkid = 1
    /\ strict = FALSE
    /\ nodeType = [id \in NodeIDs |-> UnknownNode]
    /\ db = Peers
    /\ kv = [k \in Keys |-> {}]
    /\ fallback = <<>>
    /\ plist = <<>>
    /\ nextTimeout = 0
    /\ timer = -1
    /\ timerC = FALSE
    /\ contTimeouts \in {0, ntpFailureThreshold - 1, ntpFailureThreshold}
    /\ ntpWarnTime \in {0 - ntpWarningCooldown, StartTime + 2 - ntpWarningCooldown}
    /\ driftChecks = 0
    /\ closing = FALSE
    /\ loopRunning = TRUE
    /\ calls = [c \in CallerIds |-> IdleCall]
    /\ results = [c \in CallerIds |-> <<>>]
    /\ out = <<>>
    /\ lastErr = "none"
    /\ invoked = <<>>
    /\ lastType = 0
    /\ remote = [p \in Peers |-> RemoteNode(0, FALSE)]
    /\ wire = NoWire
    /\ InitRest

DriftNext ==
    \/ ReadLoop(Pongs({Fresh(now)}, {<<>>}), {<<>>})
    \/ \E c \in CallerIds, ch \in DriftCalls : AddPending(c, ch)
    \/ LoopTimeout
    \/ Tick

DriftSpec == DriftInit /\ [][DriftNext]_vars

\* A node that asks its peers: findvalue requests and the replies that can
\* come back for them, and store requests with their replies.
ClientCalls == {Call("findvalue", p, FALSE) : p \in Peers}

\* the records a peer's findvalue.handle can select: up to two peers' node
\* URLs, each one once, in either order
SelectedRecords ==
    {sel \in UNION {[1..n -> Peers] : n \in 0..2} :
        \A i, j \in 1..Len(sel) : i # j => sel[i] # sel[j]}

\* the Value fields of the find-value replies that arrive: the selected
\* records, each followed by a comma (none: the empty string), a text that
\* starts with a comma, and one with a segment that is no node URL
ClientValues ==
    {JoinValues(sel) : sel \in SelectedRecords}
    \cup {<<COMMA>> \o EnodeURL(1), EnodeURL(ZeroID) \o <<COMMA>> \o EnodeURL(2)}

ClientPackets(t) ==
    FindvalueReplies({Fresh(t)}, ClientValues) \cup StoreReplies({Fresh(t)})

ClientInit == Init /\ networkid = 1 /\ ~strict

ClientNext ==
    \/ ReadLoop(ClientPackets(now), {<<>>})
    \/ \E c \in CallerIds, ch \in ClientCalls : AddPending(c, ch)
    \/ \E to \in Peers, key \in Keys : SendStore(to, key)

ClientSpec == ClientInit /\ [][ClientNext]_vars

\* Requests from registration to result: ping, findnode and findvalue are
\* registered with the loop and then sent, replies for them arrive, time
\* passes, the clock can be set back and the node can be closed.
RequestCalls == {Call(op, 1, FALSE) : op \in {"ping", "findnode", "findvalue"}}

RequestPackets(t) ==
    {req \in Pongs({Fresh(t)}, {<<>>}) \cup Neighbors({Fresh(t)}, {<<GoodNode(1)>>})
              \cup FindvalueReplies({Fresh(t)}, {EnodeURL(1) \o <<COMMA>>}) :
        req.from = 1}

RequestNext ==
    \/ ReadLoop(RequestPackets(now), {<<>>})
    \/ \E c \in CallerIds, ch \in RequestCalls : AddPending(c, ch)
    \/ \E c \in CallerIds : SendRequest(c)
    \/ LoopTimeout
    \/ LoopClosing
    \/ Close
    \/ Tick
    \/ \E t \in 0..MaxTime : ClockJump(t)

RequestSpec == LoopInit /\ [][RequestNext]_vars

\* findnode against answers of every kind: the node has an allow-list or none,
\* the answering peer lists nodes that pass or fail each check of nodeFromRPC,
\* and pings classify the listed node

\* an allow-list of the public addresses
WanOnly == [nil |-> FALSE, list |-> {"wan"}]

FindCalls == {Call("findnode", 1, s) : s \in BOOLEAN}

\* a port that is too low
LowPort == 1024

FindNodes ==
    {RpcNode(1, "wan", 1025), RpcNode(2, "wan", 1025), RpcNode(2, "lan", 1025),
     RpcNode(2, "loopback", 1025), RpcNode(2, "wan", LowPort)}

FindPackets(t) ==
    {req \in Pings({Fresh(t)}, {NetworkRest(1), NetworkRest(2)}) : req.from = 2}
    \cup {req \in Neighbors({Fresh(t)},
                              {<<n>> : n \in FindNodes}
                              \cup {<<RpcNode(2, "wan", 1025), n>> : n \in FindNodes}) :
             req.from = 1}

FindInit ==
    /\ InitNode
    /\ networkid = 1
    /\ ~strict
    /\ remote = [p \in Peers |-> RemoteNode(0, FALSE)]
    /\ wire = NoWire
    /\ netrestrict \in {NoNetrestrict, WanOnly}
    /\ unconfirmed = newUnconfirmedBlocks(0)
    /\ mined = 0

FindNext ==
    \/ ReadLoop(FindPackets(now), {<<>>})
    \/ \E ch \in FindCalls : AddPending(1, ch)

FindSpec == FindInit /\ [][FindNext]_vars

\* The wire codec alone: a message of each type made by a node with each
\* key is encoded by encodePacket, and the packet is decoded by decodePacket.
CodecInit ==
    LET endpoint == [ip |-> "wan", udp |-> 1025, tcp |-> 1025]
        exps == {0, 1}
        Messages(ptype) ==
            CASE ptype = PINGPACKET ->
                   {[Version |-> 4, From |-> endpoint, To |-> endpoint, Expiration |-> e,
                     Rest |-> r] : e \in exps, r \in {<<>>, NetworkRest(1)}}
              [] ptype = PONGPACKET ->
                   {[To |-> endpoint, ReplyTok |-> <<1>>, Expiration |-> e, Rest |-> r] :
                        e \in exps, r \in {<<>>, NetworkRest(1)}}
              [] ptype = FINDNODEPACKET ->
                   {[Target |-> t, Expiration |-> e, Rest |-> <<>>] :
                        t \in Peers, e \in exps}
              [] ptype = NEIGHBORSPACKET ->
                   {[Nodes |-> l, Expiration |-> e, Rest |-> <<>>] :
                        l \in {<<>>, <<GoodNode(1)>>, <<GoodNode(1), GoodNode(2)>>},
                        e \in exps}
              [] ptype = STOREPACKET ->
                   {[Key |-> k, From |-> endpoint, Expiration |-> e, Value |-> v] :
                        k \in Keys, e \in exps, v \in {<<>>, EnodeURL(1)}}
              [] ptype = STOREREPLYPACKET ->
                   {[Expiration |-> e, result |-> ok] : e \in exps, ok \in BOOLEAN}
              [] ptype = FINDVALUEPACKET ->
                   {[Key |-> k, Expiration |-> e] : k \in Keys, e \in exps}
              [] ptype = FINDVALUEREPLYPACKET ->
                   {[Key |-> <<k>>, Value |-> v, Expiration |-> e] :
                        k \in Keys, e \in exps, v \in ClientValues}
    IN  /\ InitNode
        /\ InitRest
        /\ remote = [p \in Peers |-> RemoteNode(0, FALSE)]
        /\ \E id \in NodeIDs \ {ZeroID}, ptype \in PINGPACKET..FINDVALUEREPLYPACKET :
               \E m \in Messages(ptype) :
                   wire = [stage |-> "message", priv |-> [secret |-> id],
                           ptype |-> ptype, msg |-> m]

\* u.send: encodePacket on the message
EncodeStep ==
    /\ wire.stage = "message"
    /\ wire' = [stage |-> "packet", priv |-> wire.priv, ptype |-> wire.ptype,
                msg |-> wire.msg,
                packet |-> encodePacket(wire.priv, wire.ptype, wire.msg)]
    /\ UNCHANGED <<now, jumps, networkid, strict, nodeType, db, kv, fallback, plist,
                   nextTimeout, timer, timerC, contTimeouts, ntpWarnTime, driftChecks,
                   closing, loopRunning, calls, results, out, lastErr, invoked,
                   lastType, remote, netrestrict, unconfirmed, mined>>

\* handlePacket's first line: decodePacket on the packet
DecodeStep ==
    /\ wire.stage = "packet"
    /\ wire' = [stage |-> "decoded", priv |-> wire.priv, ptype |-> wire.ptype,
                msg |-> wire.msg, packet |-> wire.packet,
                back |-> decodePacket(wire.packet)]
    /\ UNCHANGED <<now, jumps, networkid, strict, nodeType, db, kv, fallback, plist,
                   nextTimeout, timer, timerC, contTimeouts, ntpWarnTime, driftChecks,
                   closing, loopRunning, calls, results, out, lastErr, invoked,
                   lastType, remote, netrestrict, unconfirmed, mined>>

CodecNext == EncodeStep \/ DecodeStep

CodecSpec == CodecInit /\ [][CodecNext]_vars

\* --------------------------------------- the miner's unconfirmed block set

\* Shift(height): blocks are dropped from set.blocks onwards until one is too
\* fresh; next.index+uint64(set.depth) is a uint64 sum
RECURSIVE Shift(_, _)
Shift(set, height) ==
    IF Len(set.blocks) = 0 THEN set
    ELSE IF ToUint(Head(set.blocks).index + set.depth) > height THEN set
    ELSE Shift([set EXCEPT !.blocks = Tail(@)], height)

\* Insert without its call of Shift
InsertUnshifted(set, index, hash) ==
    [set EXCEPT !.blocks = Append(@, [index |-> index, hash |-> hash])]

\* Insert(index, hash): Shift(index), then the new item is linked in before
\* set.blocks, which is the end of the ring
Insert(set, index, hash) ==
    [Shift(set, index) EXCEPT !.blocks = Append(@, [index |-> index, hash |-> hash])]

Hashes == {1, 2}

\* a node whose miner has a set of some depth
MinerInit ==
    /\ InitNode
    /\ networkid = 1
    /\ ~strict
    /\ remote = [p \in Peers |-> RemoteNode(0, FALSE)]
    /\ wire = NoWire
    /\ netrestrict = NoNetrestrict
    /\ \E depth \in 0..MaxDepth : unconfirmed = newUnconfirmedBlocks(depth)
    /\ mined = 0

\* the miner's worker calls Insert for a block it has mined
InsertBlock(index, hash) ==
    /\ Len(Shift(unconfirmed, index).blocks) < MaxBlocks
    /\ unconfirmed' = Insert(unconfirmed, index, hash)
    /\ mined' = index
    /\ UNCHANGED <<now, jumps, networkid, strict, nodeType, db, kv, fallback, plist,
                   nextTimeout, timer, timerC, contTimeouts, ntpWarnTime, driftChecks,
                   closing, loopRunning, calls, results, out, lastErr, invoked,
                   lastType, remote, wire, netrestrict>>

\* the miner's worker calls Shift when the chain has a new head
ShiftTo(height) ==
    /\ unconfirmed' = Shift(unconfirmed, height)
    /\ UNCHANGED <<now, jumps, networkid, strict, nodeType, db, kv, fallback, plist,
                   nextTimeout, timer, timerC, contTimeouts, ntpWarnTime, driftChecks,
                   closing, loopRunning, calls, results, out, lastErr, invoked,
                   lastType, remote, wire, netrestrict, mined>>

\* Blocks inserted in any order of their numbers, as after a reorganisation
\* of the chain
AnyIndices == {0, 1, 2, MaxUint}

UnconfirmedNext ==
    \/ \E index \in AnyIndices, hash \in Hashes : InsertBlock(index, hash)
    \/ \E height \in 0..MaxUint : ShiftTo(height)

UnconfirmedSpec == MinerInit /\ [][UnconfirmedNext]_vars

\* Blocks inserted with strictly increasing numbers, from block 1 on
InsertNextBlock(index, hash) == index > mined /\ InsertBlock(index, hash)

MinerNext ==
    \/ \E index \in 1..MaxUint, hash \in Hashes : InsertNextBlock(index, hash)
    \/ \E height \in 0..MaxUint : ShiftTo(height)

MinerSpec == MinerInit /\ [][MinerNext]_vars

\* ------------------------------------------------- dispatch of alien peers

\* every way one packet of the set packets can be handled in this state
Dispatches(packets, tables) ==
    {[req |-> req, h |-> handlePacket(World, req, via, tableNodes, sel)] :
        req \in packets, via \in {"loop", "closing"}, tableNodes \in tables,
        sel \in Selections(GetKey(kv, 1))}

\* C1: a packet whose sender is classified alien when it is dispatched makes
\* handlePacket return an error; nothing is sent, no pending entry is matched
\* or removed and no callback runs, no result is delivered, and the
\* classification and the key/value store stay as they were.
AlienDroppedAtDispatch ==
    \A d \in Dispatches(SpecPackets(now), SpecTables) :
        GetNodeType(nodeType, d.req.from) = AlienNode =>
            /\ d.h.err # nil
            /\ d.h.out = <<>>
            /\ d.h.invoked = <<>>
            /\ d.h.u.plist = plist
            /\ d.h.u.calls = calls
            /\ d.h.u.results = results
            /\ d.h.u.nodeType = nodeType
            /\ d.h.u.kv = kv

\* a packet was dropped with errAlien while a request to its sender, the
\* only alien peer, was pending
AlienPacketDropped ==
    /\ lastErr = errAlien
    /\ \E i \in 1..Len(plist) :
          /\ nodeType[plist[i].from] = AlienNode
          /\ \A p \in Peers \ {plist[i].from} : nodeType[p] # AlienNode

\* C2: once a NodeID is classified alien, no step changes its classification.
AlienIsSticky ==
    [][\A id \in NodeIDs : nodeType[id] = AlienNode => nodeType'[id] = AlienNode]_vars

\* a packet was dropped with errAlien and another peer is classified brother
AlienAndBrotherClassified ==
    /\ lastErr = errAlien
    /\ \E id \in Peers : nodeType[id] = BrotherNode

\* ------------------------------------------------- the pending-reply loop

\* the requests that have an entry in plist
Outstanding(list) == {list[i].caller : i \in 1..Len(list)}

\* how often c occurs in the sequence s
Occurrences(s, c) == Cardinality({k \in 1..Len(s) : s[k] = c})

\* C3: when a reply arrives, every pending entry with its (peer, packet type)
\* has its callback invoked once; an entry whose callback returns true is
\* removed and its caller gets nil, one whose callback returns false stays
\* in the list and gets no result.
GotReplyInvokesEachMatch ==
    \A req \in LoopPackets(now) :
        LET r == GotReplyFrom(World, 1, req.from, req.ptype, req)
        IN  \A i \in 1..Len(plist) :
                LET c == plist[i].caller
                IN  (plist[i].from = req.from /\ plist[i].ptype = req.ptype) =>
                        /\ Occurrences(r.invoked, c) = 1
                        /\ IF Callback(World, c, req).done
                           THEN /\ c \notin Outstanding(r.u.plist)
                                /\ r.u.results[c] = Append(results[c], nil)
                           ELSE /\ c \in Outstanding(r.u.plist)
                                /\ r.u.results[c] = results[c]

\* C4: a request gets errTimeout only in a step that starts at or after its
\* entry's deadline, which is the time the loop took the entry plus
\* respTimeout, and the entry is off the list when the step is over.  (The
\* loop reads timeout.C before the clock moves on, so the time it reads is now.)
TimeoutOnlyAtDeadline ==
    [][\A c \in CallerIds :
          (Len(results'[c]) > Len(results[c])
             /\ results'[c][Len(results'[c])] = errTimeout) =>
              /\ c \notin Outstanding(plist')
              /\ \E i \in 1..Len(plist) :
                    /\ plist[i].caller = c
                    /\ plist[i].deadline = plist[i].createAt + respTimeout
                    /\ now >= plist[i].deadline]_vars

\* a request has timed out after the clock was set back, another is pending
TimedOutAfterJump ==
    /\ jumps > 0
    /\ \E c \in CallerIds : results[c] = <<errTimeout>>
    /\ plist # <<>>

\* C5: when the loop takes the closing case every entry of the list gets
\* errClosed; an addPending the loop does not accept gets errClosed; and once
\* the loop has returned every request made has exactly one result.
ClosedReachesEveryCaller ==
    [][/\ (loopRunning /\ ~loopRunning') =>
              \A c \in Outstanding(plist) : results'[c] = Append(results[c], errClosed)
       /\ \A c \in CallerIds :
              (calls[c].pc = "idle" /\ calls'[c].pc # "idle"
                 /\ c \notin Outstanding(plist')) => results'[c] = <<errClosed>>
       /\ ~loopRunning' =>
              \A c \in CallerIds : calls'[c].pc # "idle" => Len(results'[c]) = 1]_vars

\* the loop has returned with two entries on its list, both closed
TwoEntriesClosed ==
    /\ ~loopRunning
    /\ Len(plist) = 2
    /\ \A c \in Outstanding(plist) : results[c] = <<errClosed>>

\* C6: a request that waits is resumed in the end, also when no request and
\* no reply arrives any more: while the loop runs and an entry is on its
\* list, the timer runs or has fired, so that the loop comes back to the list.
WaitingCallerHasTimer ==
    (loopRunning /\ plist # <<>>) => (timer > 0 \/ timerC)

\* ------------------------------------------------ ping, pong and the types

\* whether the packets sent hold a pong to the node id
PongSentTo(sent, id) ==
    \E k \in 1..Len(sent) : sent[k].ptype = PONGPACKET /\ sent[k].to = id

\* the pings and pongs that carry the network id n in their Rest field and
\* have not expired at time t
Carrying(n, t) == Pings({Same(t)}, {NetworkRest(n)}) \cup Pongs({Same(t)}, {NetworkRest(n)})

\* C7: of the pings that have not expired and whose sender is not dropped as
\* alien, a node with strictNodeCheck answers with a pong exactly those
\* after which the table holds the sender as brother, and a node without
\* strictNodeCheck answers every one.
StrictPongIffBrother ==
    \A req \in Pings({Same(now)}, RestChoices) :
        GetNodeType(nodeType, req.from) # AlienNode =>
            LET Answered(h) ==
                    IF strict
                    THEN PongSentTo(h.out, req.from)
                            <=> GetNodeType(h.u.nodeType, req.from) = BrotherNode
                    ELSE PongSentTo(h.out, req.from)
            IN  Answered(handlePacket(World, req, "loop", <<>>, <<>>))

\* C8: the table a ping leaves is the same with and without strictNodeCheck,
\* for every ping and every table the node can hold.
ClassificationIgnoresStrict ==
    \A req \in Pings({Stale(now), Same(now)}, RestChoices) :
        handlePacket([World EXCEPT !.strict = TRUE], req, "loop", <<>>, <<>>).u.nodeType
          = handlePacket([World EXCEPT !.strict = FALSE], req, "loop", <<>>, <<>>).u.nodeType

\* a node with strictNodeCheck has handled a ping without answering, and holds
\* every peer as alien
PingUnansweredSenderAlien ==
    /\ strict
    /\ lastErr = nil
    /\ out = <<>>
    /\ invoked = <<>>
    /\ \A p \in Peers : nodeType[p] = AlienNode

\* C9: when this node has pinged a peer that has the same networkid and the
\* peer's pong has completed the ping, this node holds the peer as brother
\* and the peer holds this node as brother, whatever strictNodeCheck is on
\* either side.
EqualIdsEndBrothers ==
    \A c \in CallerIds :
        (calls[c].op = "ping" /\ results[c] = <<nil>>
           /\ remote[calls[c].to].networkid = networkid) =>
            /\ nodeType[calls[c].to] = BrotherNode
            /\ remote[calls[c].to].nodeType = BrotherNode

\* C10: a ping or pong that has not expired and carries a network id other
\* than the node's own leaves its sender alien, whatever the id carried is.
DifferentIdMarksAlien ==
    \A n \in 0..MaxUint :
        n # networkid =>
            \A req \in Carrying(n, now) :
                GetNodeType(handlePacket(World, req, "loop", <<>>, <<>>).u.nodeType,
                            req.from) = AlienNode

\* C11: a ping or pong that has not expired and has no Rest field leaves the
\* classification of its sender as it was, whatever the node's networkid is.
AbsentRestLeavesType ==
    \A req \in Pings({Fresh(now)}, {<<>>}) \cup Pongs({Fresh(now)}, {<<>>}) :
        GetNodeType(handlePacket(World, req, "loop", <<>>, <<>>).u.nodeType, req.from)
          = GetNodeType(nodeType, req.from)

\* ------------------------------------------------------------ expiration

\* a packet of each of the eight types from each peer, with the Expiration
\* stamps exps; the pings and pongs carry a network id that is no node's own
ExpiryPackets(exps) ==
    Pings(exps, {NetworkRest(2)})
    \cup Pongs(exps, {NetworkRest(2)})
    \cup Findnodes(exps, {<<>>})
    \cup Neighbors(exps, {<<GoodNode(1)>>})
    \cup Stores(exps)
    \cup StoreReplies(exps)
    \cup Findvalues(exps)
    \cup FindvalueReplies(exps, {EnodeURL(1) \o <<COMMA>>})

\* the handler h has sent nothing, run no callback, and left the pending
\* entries, the results, the classification and the key/value store alone
NoEffect(h) ==
    /\ h.out = <<>>
    /\ h.invoked = <<>>
    /\ h.u.plist = plist
    /\ h.u.calls = calls
    /\ h.u.results = results
    /\ h.u.nodeType = nodeType
    /\ h.u.kv = kv

\* C12: each of the eight handlers returns errExpired when now is at or
\* after the packet's Expiration stamp, the instant of the stamp included,
\* and then sends nothing, changes no classification, matches no pending
\* entry and leaves the key/value store alone.
ExpiredAtOrAfterStamp ==
    \A d \in Dispatches(ExpiryPackets(0..Unix(now)), SpecTables) :
        (GetNodeType(nodeType, d.req.from) # AlienNode
           /\ now >= d.req.exp * TicksPerSecond) =>
            d.h.err = errExpired /\ NoEffect(d.h)

\* C13: a ping whose Expiration stamp is earlier than now gets no pong,
\* changes no classification, completes no pending entry and starts no bond.
StalePingIgnored ==
    \A req \in Pings(0..Unix(now), RestChoices), via \in {"loop", "closing"} :
        req.exp * TicksPerSecond < now =>
            NoEffect(handlePacket(World, req, via, <<>>, <<>>))

\* a ping was rejected as expired while a request waits for a ping and no
\* peer is classified
StalePingWhileWaiting ==
    /\ lastType = PINGPACKET
    /\ lastErr = errExpired
    /\ \E i \in 1..Len(plist) : plist[i].ptype = PINGPACKET
    /\ \A p \in Peers : nodeType[p] = UnknownNode

\* ------------------------------------------------------ unsolicited replies

\* a pong, a neighbors packet and a find-value reply from each peer, none of
\* them expired at time t
Replies(t) ==
    Pongs({Fresh(t)}, {<<>>})
    \cup Neighbors({Fresh(t)}, {<<GoodNode(1)>>})
    \cup FindvalueReplies({Fresh(t)}, {EnodeURL(1) \o <<COMMA>>})

\* whether the list holds an entry for the packet type ptype from the node from
Pending(list, from, ptype) ==
    \E i \in 1..Len(list) : list[i].from = from /\ list[i].ptype = ptype

\* the ways handleReply's select can go in this state
Ways == (IF loopRunning THEN {"loop"} ELSE {}) \cup (IF closing THEN {"closing"} ELSE {})

\* C14: a pong, neighbors packet or find-value reply that has not expired
\* and finds no pending entry with its sender and type is rejected with
\* errUnsolicitedReply; no callback runs, the list of pending entries stays
\* as it was and no request gets a result.
UnsolicitedReplyRejected ==
    \A req \in Replies(now), via \in Ways :
        (GetNodeType(nodeType, req.from) # AlienNode
           /\ ~Pending(plist, req.from, req.ptype)) =>
            LET Rejected(h) ==
                    /\ h.err = errUnsolicitedReply
                    /\ h.invoked = <<>>
                    /\ h.u.plist = plist
                    /\ h.u.results = results
            IN  Rejected(handlePacket(World, req, via, <<>>, <<>>))

\* ------------------------------------------------- findnode and neighbors

\* the findnode requests that have not expired at time t
FindnodeRequests(t) == Findnodes({Fresh(t)}, {<<>>, BrotherFlag})

\* C15: a findnode request that reaches its handler unexpired from a sender
\* without a bonded node record returns errUnknownNode and nothing is sent,
\* whatever the table holds.
UnbondedFindnodeRefused ==
    \A req \in FindnodeRequests(now), tableNodes \in ServeTables :
        (req.from \notin db /\ GetNodeType(nodeType, req.from) # AlienNode) =>
            LET Refused(h) == h.err = errUnknownNode /\ h.out = <<>>
            IN  Refused(handlePacket(World, req, "loop", tableNodes, <<>>))

\* a findnode of the peer without a bond was refused while the other peer is
\* bonded and classified brother
FindnodeOfUnbondedRefused ==
    /\ lastType = FINDNODEPACKET
    /\ lastErr = errUnknownNode
    /\ out = <<>>
    /\ db = {1}
    /\ nodeType[1] = BrotherNode

\* the neighbors packets among the packets sent, in order
NeighborsSent(sent) == SelectSeq(sent, LAMBDA m : m.ptype = NEIGHBORSPACKET)

\* C16: a findnode request that has not expired gets at least one neighbors
\* packet when its sender is bonded, whatever the table holds: also when no
\* node is close and when every close node fails the relay check.
BondedFindnodeAnswered ==
    \A req \in FindnodeRequests(now), tableNodes \in ServeTables :
        (req.from \in db /\ GetNodeType(nodeType, req.from) # AlienNode) =>
            LET Answered(h) ==
                    /\ h.err = nil
                    /\ \E k \in 1..Len(h.out) :
                          h.out[k].ptype = NEIGHBORSPACKET /\ h.out[k].to = req.from
            IN  Answered(handlePacket(World, req, "loop", tableNodes, <<>>))

\* the number of nodes in the packets sent
RECURSIVE TotalNodes(_)
TotalNodes(sent) ==
    IF Len(sent) = 0 THEN 0 ELSE Len(Head(sent).nodes) + TotalNodes(Tail(sent))

\* C17: every neighbors packet sent for a findnode holds at least one and at
\* most maxNeighbors nodes, and the packets sent for one findnode hold at
\* most bucketSize nodes together.
NeighborsChunked ==
    \A req \in FindnodeRequests(now), tableNodes \in ServeTables :
        LET Chunked(sent) ==
                /\ \A k \in 1..Len(sent) :
                      /\ Len(sent[k].nodes) >= 1
                      /\ Len(sent[k].nodes) <= maxNeighbors
                /\ TotalNodes(sent) <= bucketSize
        IN  Chunked(NeighborsSent(handlePacket(World, req, "loop", tableNodes, <<>>).out))

\* a findnode was answered with a full neighbors packet and a second one,
\* bucketSize nodes in all
FullAndPartialChunkSent ==
    /\ lastType = FINDNODEPACKET
    /\ lastErr = nil
    /\ Len(out) = 2
    /\ Len(out[1].nodes) = maxNeighbors
    /\ TotalNodes(out) = bucketSize

\* ------------------------------------------------- store and find-value

\* the values a find-value reply lists: the segments of its Value field
\* that are not empty
ValuesListed(value) ==
    LET segs == SplitComma(value)
    IN  {segs[i] : i \in {j \in 1..Len(segs) : segs[j] # <<>>}}

\* the store requests that have not expired at time t, each with the value
\* of its sender's own node and with another value
StoreRequests(t) == StoresWith({Fresh(t)}, {EnodeURL(p) : p \in Peers})

\* C18: after a store request for the key K from a bonded sender has been
\* handled without error, a findvalue for K, with no more values under K than
\* SubnetBootNodeLimits, gets a reply that lists the Value of the store
\* request.
StoredValueFound ==
    \A req \in StoreRequests(now), fv \in Findvalues({Fresh(now)}) :
        (req.from \in db /\ fv.key = req.key
           /\ GetNodeType(nodeType, req.from) # AlienNode
           /\ GetNodeType(nodeType, fv.from) # AlienNode) =>
            LET Found(h) ==
                    /\ Len(h.out) = 1
                    /\ h.out[1].ptype = FINDVALUEREPLYPACKET
                    /\ req.value \in ValuesListed(h.out[1].value)
                Stored(st) ==
                    (st.err = nil
                       /\ Cardinality(GetKey(st.u.kv, req.key)) <= SubnetBootNodeLimits) =>
                        \A sel \in Selections(GetKey(st.u.kv, req.key)) :
                            Found(handlePacket(st.u, fv, "loop", <<>>, sel))
            IN  Stored(handlePacket(World, req, "loop", <<>>, <<>>))

\* C19: a store request that reaches its handler unexpired from a sender
\* without a bonded node record returns errUnknownNode, leaves the key/value
\* store as it was and gets no store reply.
UnbondedStoreRefused ==
    \A req \in StoreRequests(now) :
        (req.from \notin db /\ GetNodeType(nodeType, req.from) # AlienNode) =>
            LET Refused(h) ==
                    /\ h.err = errUnknownNode
                    /\ h.u.kv = kv
                    /\ h.out = <<>>
            IN  Refused(handlePacket(World, req, "loop", <<>>, <<>>))

\* a store of the peer without a bond was refused; the key holds the value
\* of the bonded peer and no other
StoreOfUnbondedRefused ==
    /\ lastType = STOREPACKET
    /\ lastErr = errUnknownNode
    /\ out = <<>>
    /\ db = {1}
    /\ \A k \in Keys : GetKey(kv, k) = {1}

\* the values a find-value reply lists, in order
ListedInOrder(value) == SelectSeq(SplitComma(value), LAMBDA seg : seg # <<>>)

\* C20: for a key that holds n values the find-value reply lists n of them,
\* or SubnetBootNodeLimits when n is more; each value listed is held under
\* the key and none is listed twice; with no value held the reply's Value
\* is the empty string.
FindvalueListsCappedSample ==
    \A fv \in Findvalues({Fresh(now)}) :
        GetNodeType(nodeType, fv.from) # AlienNode =>
            \A sel \in Selections(GetKey(kv, fv.key)) :
                LET n == Cardinality(GetKey(kv, fv.key))
                    Sampled(listed) ==
                        /\ Len(listed) = IF n > SubnetBootNodeLimits
                                         THEN SubnetBootNodeLimits ELSE n
                        /\ \A i \in 1..Len(listed) :
                              \E o \in GetKey(kv, fv.key) : listed[i] = EnodeURL(o)
                        /\ \A i, j \in 1..Len(listed) : i # j => listed[i] # listed[j]
                    Listed(h) ==
                        /\ h.err = nil
                        /\ Len(h.out) = 1
                        /\ h.out[1].ptype = FINDVALUEREPLYPACKET
                        /\ Sampled(ListedInOrder(h.out[1].value))
                        /\ (n = 0 => h.out[1].value = <<>>)
                IN  Listed(handlePacket(World, fv, "loop", <<>>, sel))

\* a findvalue for a key that holds more values than SubnetBootNodeLimits
\* was answered with the value of peer 2 alone
SampleOfFullKeySent ==
    /\ lastType = FINDVALUEPACKET
    /\ Len(out) = 1
    /\ out[1].value = EnodeURL(2) \o <<COMMA>>
    /\ \E k \in Keys : Cardinality(GetKey(kv, k)) > SubnetBootNodeLimits

\* ------------------------------------------------------ requests and replies

\* C21: a store request that goes out has a pending entry for the store
\* reply of its target, which that reply then completes.
StoreRegistersPending ==
    (Len(out) = 1 /\ out[1].ptype = STOREPACKET) =>
        Pending(plist, out[1].to, STOREREPLYPACKET)

\* the entries of list that wait for another sender or another packet type
OtherEntries(list, from, ptype) ==
    LET Other(p) == ~(p.from = from /\ p.ptype = ptype) IN SelectSeq(list, Other)

\* the callers whose entry in list waits for this sender and packet type
MatchingCallers(list, from, ptype) ==
    {list[i].caller : i \in {j \in 1..Len(list) :
                                list[j].from = from /\ list[j].ptype = ptype}}

NeighborsCounted(r, c, req) ==
    LET total == calls[c].nreceived + Len(req.nodes)
    IN  /\ r.u.calls[c].nreceived = total
        /\ IF total >= bucketSize
           THEN /\ r.u.results[c] = Append(results[c], nil)
                /\ c \notin MatchingCallers(r.u.plist, req.from, req.ptype)
           ELSE /\ r.u.results[c] = results[c]
                /\ c \in MatchingCallers(r.u.plist, req.from, req.ptype)

\* C23: each neighbors packet that arrives is given to the callback of the
\* findnode request pending for its sender, one packet after the other, and
\* the request completes at the first packet with which the number of nodes
\* listed in the packets received so far reaches bucketSize.
FindnodeCompletesByCount ==
    \A req \in LoopPackets(now) :
        LET Scanned(r) ==
                \A c \in MatchingCallers(plist, req.from, req.ptype) :
                    NeighborsCounted(r, c, req)
        IN  req.ptype = NEIGHBORSPACKET =>
                Scanned(GotReplyFrom(World, 1, req.from, req.ptype, req))

\* the same for a findnode request that is the only one pending for the peer
LoneFindnodeCompletesByCount ==
    \A req \in LoopPackets(now) :
        LET Scanned(r) ==
                \A c \in MatchingCallers(plist, req.from, req.ptype) :
                    NeighborsCounted(r, c, req)
        IN  (/\ req.ptype = NEIGHBORSPACKET
             /\ Cardinality(MatchingCallers(plist, req.from, req.ptype)) = 1) =>
                Scanned(GotReplyFrom(World, 1, req.from, req.ptype, req))

\* resetTimeout at the state u, where it looks at the head of the list: a
\* head with a deadline 2*respTimeout or more away is removed and its caller
\* gets errClockWarp; with a nearer head nobody gets a result and the list
\* stays as it is
HeadWarped(u) ==
    LET p == u.plist[1]
        Armed(r) ==
            IF p.deadline - u.now >= 2 * respTimeout
            THEN /\ r.results = [u.results EXCEPT ![p.caller] = Append(@, errClockWarp)]
                 /\ r.plist = Tail(u.plist)
            ELSE r.results = u.results /\ r.plist = u.plist
    IN  (Len(u.plist) > 0 /\ u.nextTimeout # p.caller) => Armed(resetTimeout(u))

\* the callers that get errClockWarp in a step had, before it, an entry
\* with a deadline 2*respTimeout or more away, which the step removes
WarpOnlyFarEntries ==
    \A c \in CallerIds :
        (/\ Len(results'[c]) = Len(results[c]) + 1
         /\ results'[c][Len(results'[c])] = errClockWarp) =>
            /\ \E i \in 1..Len(plist) :
                   /\ plist[i].caller = c
                   /\ plist[i].deadline - now >= 2 * respTimeout
            /\ \A i \in 1..Len(plist') : plist'[i].caller # c

\* C24: when resetTimeout arms the timer and the head of the pending list
\* has its deadline 2*respTimeout or more in the future, that entry is
\* removed and its caller gets errClockWarp; an entry whose deadline is
\* nearer never gets errClockWarp.
FarHeadGetsClockWarp ==
    /\ [](HeadWarped(World) /\ HeadWarped([World EXCEPT !.nextTimeout = 0]))
    /\ [][WarpOnlyFarEntries]_vars

\* a caller has got errClockWarp
SomeCallerWarped ==
    \E c \in CallerIds :
        Len(results[c]) > 0 /\ results[c][Len(results[c])] = errClockWarp

\* the soonest deadline among the entries of a non-empty list
SoonestDeadline(list) ==
    CHOOSE d \in {list[i].deadline : i \in 1..Len(list)} :
        \A i \in 1..Len(list) : d <= list[i].deadline

\* C25: whenever the loop waits in its select with entries on the pending
\* list, its timer runs and is set to fire at the soonest deadline among
\* them: it fires when the node's clock reaches that deadline, and where the
\* clock has been set back since the timer was set, no later than that.
TimerAtSoonestDeadline ==
    (loopRunning /\ ~timerC /\ Len(plist) > 0) =>
        /\ timer > 0
        /\ IF jumps = 0 THEN now + timer = SoonestDeadline(plist)
           ELSE now + timer <= SoonestDeadline(plist)

\* the same in the states where the timer runs or has fired
RunningTimerAtSoonestDeadline ==
    WaitingCallerHasTimer => TimerAtSoonestDeadline

\* ---------------------------------------------------------- the drift check

\* the number of callers the step hands errTimeout
TimedOut ==
    Cardinality({c \in CallerIds : results'[c] = Append(results[c], errTimeout)})

\* a step of the loop and the drift check: the counter is the number of
\* entries timed out since it was last zero, a reply that matches an entry
\* makes it zero, and only that or going over ntpFailureThreshold does; the
\* check is launched only by a step that takes the counter over
\* ntpFailureThreshold, at least ntpWarningCooldown after ntpWarnTime, which
\* is the time of the last launch
DriftCheckStep ==
    /\ driftChecks' # driftChecks =>
           /\ driftChecks' = driftChecks + 1
           /\ contTimeouts + TimedOut > ntpFailureThreshold
           /\ now - ntpWarnTime >= ntpWarningCooldown
           /\ ntpWarnTime' = now
    /\ driftChecks' = driftChecks => ntpWarnTime' = ntpWarnTime
    /\ invoked' # <<>> => contTimeouts' = 0
    /\ contTimeouts' \in {0, contTimeouts + TimedOut}
    /\ (contTimeouts' = 0 /\ contTimeouts + TimedOut > 0) =>
           invoked' # <<>> \/ contTimeouts + TimedOut > ntpFailureThreshold

\* C26: the clock drift check is launched only when more than
\* ntpFailureThreshold entries have timed out in a row, with no matched
\* reply in between, since the counter was last zero; two launches are at
\* least ntpWarningCooldown apart; a matched reply sets the counter to zero.
DriftCheckRateLimited == [][DriftCheckStep]_vars

\* the drift check has been launched, on a timeout that took the counter
\* over the threshold
DriftCheckLaunched ==
    /\ driftChecks = 1
    /\ ntpWarnTime = now
    /\ contTimeouts = 0
    /\ \E c \in CallerIds : results[c] = <<errTimeout>>

\* -------------------------------------------------------- decode failures

\* the errors of decodePacket
DecodeErrors ==
    {errPacketTooSmall, errBadHash, errBadSignature, errUnknownType, errDecode}

\* the packets decodePacket rejects at the time t, those whose body fails to
\* decode with the fields of a request that would be answered
DecodeFailures(t) ==
    Undecodable
    \cup {Req(errDecode, f, ty, Fresh(t), NetworkRest(1), <<GoodNode(1)>>, 1,
              EnodeURL(1) \o <<COMMA>>) :
             f \in Peers, ty \in PINGPACKET..FINDVALUEREPLYPACKET}

\* handlePacket on every packet that fails to decode returns the decoding
\* error, or errAlien for a sender known as alien, having sent nothing, run no
\* callback and left the node as it was
DecodeFailureDropped ==
    \A req \in DecodeFailures(now), via \in {"loop", "closing"} :
        \A tableNodes \in SpecTables, sel \in Selections(GetKey(kv, 1)) :
            LET Returned(h) ==
                    /\ h.err \in {req.err, errAlien}
                    /\ h.out = <<>>
                    /\ h.invoked = <<>>
                    /\ h.u = World
            IN  Returned(handlePacket(World, req, via, tableNodes, sel))

\* a step in which readLoop has read a packet that failed to decode
DecodeFailureStep ==
    lastErr' \in DecodeErrors =>
        /\ out' = <<>> /\ invoked' = <<>> /\ lastType' = 0
        /\ UNCHANGED <<now, networkid, strict, nodeType, db, kv, fallback, plist,
                       nextTimeout, timer, timerC, contTimeouts, ntpWarnTime,
                       driftChecks, closing, loopRunning, calls, results>>

\* C27: a packet that fails decoding (too small, bad hash, no signer
\* recovered, unknown type, body not decodable) runs no typed handler, sends
\* nothing and changes nothing of the node, and readLoop reads the next
\* packet after it.
DecodeFailureIgnored ==
    /\ [](DecodeFailureDropped
          /\ (lastErr \in DecodeErrors => ENABLED ReadLoop(SpecPackets(now), SpecTables)))
    /\ [][DecodeFailureStep]_vars

\* a packet whose body failed to decode has been dropped while a request waits
BodyDecodeErrorWhileWaiting ==
    /\ lastErr = errDecode
    /\ lastType = 0
    /\ out = <<>>
    /\ Len(plist) = 1
    /\ results[plist[1].caller] = <<>>

\* ------------------------------------------------------ bonding on a ping

\* C30: when a ping that has not expired is answered, the pong is sent
\* first, and the bond with the sender is started after it if and only if
\* the ping matched no pending entry that waits for a ping of that sender;
\* a ping that completes a waitping starts no bond.  (A ping matches no
\* entry when the list holds none for it, or when handleReply's select takes
\* the closing case.)
BondOnlyOnUnsolicitedPing ==
    \A req \in Pings({Stale(now), Same(now)}, RestChoices), via \in {"loop", "closing"} :
        LET solicited == via = "loop" /\ Pending(plist, req.from, PINGPACKET)
            Answered(h) ==
                h.out # <<>> =>
                    /\ ~expired(req.exp, now)
                    /\ h.out[1].ptype = PONGPACKET /\ h.out[1].to = req.from
                    /\ h.out = IF solicited THEN <<h.out[1]>>
                               ELSE <<h.out[1], BondStart(req.from)>>
                    /\ h.invoked # <<>> <=> solicited
                    /\ \A k \in 1..Len(h.invoked) :
                           /\ calls[h.invoked[k]].op = "waitping"
                           /\ h.u.results[h.invoked[k]] = Append(results[h.invoked[k]], nil)
        IN  Answered(PingHandle(World, req, via))

\* a ping has completed a waitping: the pong went out and no bond was started
WaitpingCompletedWithoutBond ==
    /\ lastType = PINGPACKET
    /\ lastErr = nil
    /\ Len(out) = 1
    /\ out[1].ptype = PONGPACKET
    /\ Len(invoked) = 1
    /\ calls[invoked[1]].op = "waitping"
    /\ results[invoked[1]] = <<nil>>

\* ------------------------------------------------------ the fallback nodes

\* C29: a find-value reply that completes a pending findvalue sets the
\* table's fallback nodes to the nodes of the reply value's segments that
\* are node URLs, in their order; empty segments (the one after the last
\* comma, one before a leading comma) and segments that are no node URL add
\* nothing.  So the fallback nodes are the records the peer's
\* findvalue.handle selected and wrote, each followed by a comma.
FallbackIsSelectedRecords ==
    \A f \in Peers, sel \in SelectedRecords :
        \A junk \in {<<>>, <<COMMA>>, EnodeURL(ZeroID) \o <<COMMA>>} :
            LET req == Req(nil, f, FINDVALUEREPLYPACKET, Fresh(now), <<>>, <<>>, 1,
                           junk \o JoinValues(sel))
                Returned(h) ==
                    IF Pending(plist, f, FINDVALUEREPLYPACKET)
                    THEN h.err = nil /\ h.invoked # <<>> /\ h.u.fallback = sel
                    ELSE h.err = errUnsolicitedReply /\ h.u.fallback = fallback
            IN  Returned(FindvalueReplyHandle(World, req, "loop"))

\* a reply that lists two records has completed a findvalue, and both nodes
\* are the fallback nodes
TwoFallbackNodesSet ==
    /\ lastType = FINDVALUEREPLYPACKET
    /\ lastErr = nil
    /\ Len(invoked) = 1
    /\ calls[invoked[1]].op = "findvalue"
    /\ results[invoked[1]] = <<nil>>
    /\ Len(fallback) = 2

\* ------------------------------------------------------------ the wire codec

\* what decodePacket returned is the message that was encoded, the NodeID of
\* the key that signed it, and the hash at the head of the packet
Recovers(w) ==
    /\ w.back.err = nil
    /\ w.back.req = w.msg
    /\ w.back.fromID = PubkeyID(w.priv)
    /\ w.back.hash = SubSeq(w.packet, 1, macSize)

\* C28: for every private key, packet type and message of the type,
\* decodePacket on the packet of encodePacket succeeds and returns the same
\* message, the NodeID of the key's public key and the hash the packet
\* starts with.
RoundTripRecovers ==
    wire.stage = "decoded" => Recovers(wire)

\* the same for every message but a store reply whose result is true
RoundTripRecoversExportedFields ==
    (/\ wire.stage = "decoded"
     /\ ~(wire.ptype = STOREREPLYPACKET /\ wire.msg.result)) => Recovers(wire)

\* ------------------------------------------ several entries for one reply

\* C31: when several pending entries wait for the (peer, packet type) of a
\* reply, the callback of each of them is invoked for the reply, also of
\* those that come after an entry the reply completes and removes.
EveryMatchingCallbackInvoked ==
    \A req \in LoopPackets(now) :
        LET Scanned(r) ==
                \A c \in MatchingCallers(plist, req.from, req.ptype) :
                    \E k \in 1..Len(r.invoked) : r.invoked[k] = c
        IN  Scanned(GotReplyFrom(World, 1, req.from, req.ptype, req))

\* the same where no entry before the last matching one completes on the reply
EveryMatchingCallbackInvokedUntilRemoval ==
    \A req \in LoopPackets(now) :
        LET mine == {i \in 1..Len(plist) :
                        plist[i].from = req.from /\ plist[i].ptype = req.ptype}
            Scanned(r) ==
                \A c \in MatchingCallers(plist, req.from, req.ptype) :
                    \E k \in 1..Len(r.invoked) : r.invoked[k] = c
        IN  (\A i \in mine : (\E j \in mine : j > i) =>
                                 ~Callback(World, plist[i].caller, req).done)
                => Scanned(GotReplyFrom(World, 1, req.from, req.ptype, req))

\* -------------------------------------------------- the nodes of a findnode

\* the nodes of the packets sent, one list
RECURSIVE NodesOf(_)
NodesOf(sent) == IF Len(sent) = 0 THEN <<>> ELSE Head(sent).nodes \o NodesOf(Tail(sent))

\* whether the findnode request asks for brother nodes only
AsksBrotherOnly(req) == req.rest = BrotherFlag

\* the nodes of the closest set a findnode handler owes the requester: those
\* that pass the relay check toward it
RelayedClosest(req, tableNodes) ==
    SelectSeq(closest(tableNodes, nodeType, AsksBrotherOnly(req)),
              LAMBDA n : CheckRelayIP(PeerIP(req.from), n.ip))

\* C32: for a findnode of a bonded sender that has not expired, every node of
\* the closest set that passes the relay check toward the requester is in
\* exactly one of the neighbors packets sent, wherever in the closest set the
\* nodes that fail the check are.
RelayedNodesAllSent ==
    \A req \in FindnodeRequests(now), tableNodes \in ServeTables :
        (req.from \in db /\ GetNodeType(nodeType, req.from) # AlienNode) =>
            LET owed == RelayedClosest(req, tableNodes)
                Listed(nodes) ==
                    \A n \in ServeNodes : Occurrences(nodes, n) = Occurrences(owed, n)
            IN  Listed(NodesOf(NeighborsSent(
                    handlePacket(World, req, "loop", tableNodes, <<>>).out)))

\* the same for the closest sets whose last node passes the relay check
RelayedNodesAllSentWhenLastPasses ==
    \A req \in FindnodeRequests(now), tableNodes \in ServeTables :
        LET cl == closest(tableNodes, nodeType, AsksBrotherOnly(req))
            owed == RelayedClosest(req, tableNodes)
            Listed(nodes) ==
                \A n \in ServeNodes : Occurrences(nodes, n) = Occurrences(owed, n)
        IN  (/\ req.from \in db /\ GetNodeType(nodeType, req.from) # AlienNode
             /\ Len(cl) > 0 /\ CheckRelayIP(PeerIP(req.from), cl[Len(cl)].ip)) =>
                Listed(NodesOf(NeighborsSent(
                    handlePacket(World, req, "loop", tableNodes, <<>>).out)))

\* the requests that were written to the socket and whose caller has no
\* result yet
RequestsSent == {c \in CallerIds : calls[c].pc = "waiting" /\ calls[c].op # "waitping"
                                   /\ results[c] = <<>>}

\* the replies that reach the handler unexpired and answer the request of c
RepliesFor(c) ==
    {req \in RequestPackets(now) : req.from = calls[c].to /\ req.ptype = calls[c].ptype}

\* the deadline the loop gave the entry of c
DeadlineOf(c) == (CHOOSE p \in {plist[i] : i \in 1..Len(plist)} : p.caller = c).deadline

RequestAwaitingReply ==
    \E c \in RequestsSent : c \in Outstanding(plist) /\ now < DeadlineOf(c) /\ ~closing
                            /\ RepliesFor(c) # {}

Accepted(c) == SubSeq(calls'[c].nodes, Len(calls[c].nodes) + 1, Len(calls'[c].nodes))

\* C34: every node that enters the list findnode returns has a UDP port above
\* 1024, passes the relay check against the queried node, is in the
\* allow-list when there is one and is not classified alien when its
\* neighbors packet is processed; under strictNodeCheck it is classified
\* brother at that moment. Nodes already in the list stay as they are.
FindnodeKeepsValidatedNodes ==
    [][\A c \in CallerIds :
          (calls[c].op = "findnode" /\ calls'[c].op = "findnode") =>
              /\ Len(calls'[c].nodes) >= Len(calls[c].nodes)
              /\ SubSeq(calls'[c].nodes, 1, Len(calls[c].nodes)) = calls[c].nodes
              /\ \A k \in 1..Len(Accepted(c)) :
                    LET rn == Accepted(c)[k]
                    IN  /\ rn.udp > 1024
                        /\ CheckRelayIP(PeerIP(calls[c].to), rn.ip)
                        /\ (~netrestrict.nil => rn.ip \in netrestrict.list)
                        /\ GetNodeType(nodeType, rn.id) # AlienNode
                        /\ (calls[c].strict => GetNodeType(nodeType, rn.id) = BrotherNode)]_vars

\* a strict findnode has returned a list that holds a node while a listed
\* node was left out
StrictFindnodeReturnedFiltered ==
    \E c \in CallerIds :
        /\ calls[c].op = "findnode" /\ calls[c].strict
        /\ results[c] = <<nil>>
        /\ Len(calls[c].nodes) > 0
        /\ Len(calls[c].nodes) < calls[c].nreceived
        /\ ~netrestrict.nil

\* C35: each request's result channel, of capacity 1, gets at most one value
\* in its lifetime, and while the loop runs no entry on its list has a value
\* in its channel already: the loop's send of a result finds room and the
\* loop goes back to its select.
AtMostOneResult ==
    /\ \A c \in CallerIds : Len(results[c]) <= 1
    /\ loopRunning => \A c \in Outstanding(plist) : results[c] = <<>>

\* one request was completed by the timeout case, another on closing
ResultsByTimeoutAndClose ==
    /\ \E c \in CallerIds : results[c] = <<errTimeout>>
    /\ \E c \in CallerIds : results[c] = <<errClosed>>
    /\ ~loopRunning

\* C36: once a request has its result (nil, errTimeout, errClockWarp or
\* errClosed) no later step invokes its callback, and the nodes and the count
\* its findnode callback has gathered stay as they were.
NoCallbackAfterResult ==
    [][\A c \in CallerIds :
          results[c] # <<>> =>
              /\ \A k \in 1..Len(invoked') : invoked'[k] # c
              /\ calls'[c].nodes = calls[c].nodes
              /\ calls'[c].nreceived = calls[c].nreceived]_vars

\* findnode has returned its nodes and a further neighbors packet of the
\* queried node was handled
NeighborsAfterFindnodeReturned ==
    \E c \in CallerIds :
        /\ calls[c].op = "findnode"
        /\ results[c] = <<nil>>
        /\ Len(calls[c].nodes) > 0
        /\ lastType = NEIGHBORSPACKET
        /\ lastErr = errUnsolicitedReply

\* C37: a pong that has not expired, from a sender not held as alien, that
\* matches no pending entry is rejected as an unsolicited reply and still
\* leaves the table processRestInPingPong makes of its Rest field.
UnsolicitedPongClassifies ==
    \A req \in Pongs({Same(now), Fresh(now)}, RestChoices) :
        (~expired(req.exp, now)
           /\ GetNodeType(nodeType, req.from) # AlienNode
           /\ MatchingCallers(plist, req.from, PONGPACKET) = {}) =>
            LET Classifies(h) ==
                    /\ h.err = errUnsolicitedReply
                    /\ h.u.nodeType = processRestInPingPong(req.rest, networkid, nodeType,
                                                            req.from).nodeType
            IN  Classifies(handlePacket(World, req, "loop", <<>>, <<>>))

\* an unsolicited pong was handled by a node that never made a request, and
\* a peer is held as brother and another as alien
UnsolicitedPongHandled ==
    /\ lastType = PONGPACKET
    /\ lastErr = errUnsolicitedReply
    /\ \A c \in CallerIds : calls[c].pc = "idle"
    /\ \E p \in Peers : nodeType[p] = BrotherNode
    /\ \E p \in Peers : nodeType[p] = AlienNode

\* C38: a findvalue request that has not expired, from a sender not held as
\* alien, is answered with exactly one findvalueReply to its sender, bonded
\* or not, whatever the store holds and whichever values are selected, and
\* the key/value store is left as it was.
FindvalueAlwaysAnswered ==
    \A req \in Findvalues({Fresh(now)}) :
        GetNodeType(nodeType, req.from) # AlienNode =>
            \A sel \in Selections(GetKey(kv, req.key)) :
                LET Answered(h) ==
                        /\ h.err = nil
                        /\ Len(h.out) = 1
                        /\ h.out[1].ptype = FINDVALUEREPLYPACKET
                        /\ h.out[1].to = req.from
                        /\ h.u.kv = kv
                IN  Answered(handlePacket(World, req, "loop", <<>>, sel))

\* a findvalue of a sender without a node record was answered from a store
\* that holds a value
UnbondedFindvalueAnswered ==
    /\ lastType = FINDVALUEPACKET
    /\ lastErr = nil
    /\ Len(out) = 1
    /\ out[1].ptype = FINDVALUEREPLYPACKET
    /\ out[1].to \notin db
    /\ Len(out[1].value) > 0

\* the blocks of the set that Shift(height) should have dropped
TooOld(set, height) ==
    {k \in 1..Len(set.blocks) : set.blocks[k].index + set.depth <= height}

\* C39: whatever Insert and Shift calls made the set, after Shift(height) the
\* set holds no block with index + depth <= height.
ShiftDropsAllOld ==
    \A height \in 0..MaxUint : TooOld(Shift(unconfirmed, height), height) = {}

\* the block numbers of the set ascend from set.blocks onwards
Ascending(set) ==
    \A k \in 1..(Len(set.blocks) - 1) : set.blocks[k].index <= set.blocks[k + 1].index

\* after Shift(height) the block at set.blocks is not too old, and no block
\* is when the set was in ascending order
ShiftDropsOldInOrder ==
    \A height \in 0..MaxUint :
        /\ 1 \notin TooOld(Shift(unconfirmed, height), height)
        /\ Ascending(unconfirmed) => TooOld(Shift(unconfirmed, height), height) = {}

\* whether the sequence s is what is left of t after blocks were taken from
\* its front
IsSuffix(s, t) == Len(s) <= Len(t) /\ s = SubSeq(t, Len(t) - Len(s) + 1, Len(t))

\* C40: with blocks inserted under strictly increasing numbers, after every
\* Insert the new block is the last of the set, the set holds at most
\* max(depth, 1) blocks, and the blocks before the new one are those the set
\* held less some from its front; a Shift alone also takes blocks from the
\* front only.
InsertKeepsNewestWithinDepth ==
    [][LET old == unconfirmed.blocks
           new == unconfirmed'.blocks
       IN  IF mined' # mined
           THEN /\ Len(new) >= 1
                /\ new[Len(new)].index = mined'
                /\ Len(new) <= (IF unconfirmed.depth > 1 THEN unconfirmed.depth ELSE 1)
                /\ IsSuffix(SubSeq(new, 1, Len(new) - 1), old)
           ELSE IsSuffix(new, old)]_vars

\* the set is full to its depth, its oldest blocks have been dropped, and the
\* block inserted last is its newest
SetFullAfterDrops ==
    /\ unconfirmed.depth > 1
    /\ Len(unconfirmed.blocks) = unconfirmed.depth
    /\ unconfirmed.blocks[1].index > 1
    /\ unconfirmed.blocks[Len(unconfirmed.blocks)].index = mined

====
